---- MODULE Spec2Model ----
\* Model of the upstream-fetch orchestration layer of llm-fid-txt:
\*   CacheManager   (bounded cache with TTL + stale-while-revalidate),
\*   BatchProcessor (batching of keyed fetches),
\*   RequestQueue   (bounded-concurrency dispatcher with circuit breaker).
\* Each component has its own specification (SpecCache, SpecBatch, SpecQueue);
\* an action of one component leaves the variables of the others unchanged.
EXTENDS Integers, Sequences, FiniteSets, TLC

\* -------------------------------------------------------------------
\* Program constants (milliseconds, as in the source)
\* -------------------------------------------------------------------
DEFAULT_TTL == 60000
USERNAME_RESOLUTION_TTL == 300000
STALE_WHILE_REVALIDATE == 300000
REQUEST_QUEUE_DELAY == 100
MAX_CONCURRENT_REQUESTS == 3
failureThreshold == 5
resetTimeout == 30000
halfOpenTimeout == 10000
MAX_RETRIES == 3
INITIAL_RETRY_DELAY == 1000

\* -------------------------------------------------------------------
\* Bounds of the model
\* -------------------------------------------------------------------
\* CACHE_CONFIG.MAX_CACHE_ITEMS is 1000 and CACHE_CONFIG.MAX_CACHE_SIZE is
\* 5 * 1024 * 1024 in the source; the model runs the same code against
\* small ceilings so that both ceilings are reached.
MAX_CACHE_ITEMS == 2
MAX_CACHE_SIZE == 8
\* BATCH_CONFIG.MAX_BATCH_SIZE is 50 in the source
MAX_BATCH_SIZE == 2
\* number of add() calls made to the batch processor
MaxCallers == 3
\* number of operations submitted to the request queue
MaxTasks == 7
\* number of leading operations that choose their endpoint
MixedTasks == 2
\* number of failures of other operations of the endpoint while one
\* fetchWithRetry call runs
MaxPeerFailures == 6
\* number of calls of resolveFid
MaxResolves == 2
\* number of messages the upstream holds for the fid
MaxFeed == 3
\* largest limit of a query
MaxLimit == 2
\* number of messages the upstream holds for the fid of a stream
MaxStreamFeed == 2
\* largest number of reaction messages a lookup returns
MaxReactions == 1
\* number of casts fetchCasts has accepted when it fetches the parents
MaxCasts == 3
\* number of different parent hashes
MaxParents == 3
\* BATCH_CONFIG.PARENTS_BATCH_SIZE, scaled down
PARENTS_BATCH_SIZE == 2
\* largest fid
MaxFid == 2
\* number of messages of a userDataByFid response
MaxUserData == 2
\* text API: length of the feed, largest limit
MaxTextFeed == 3
MaxTextLimit == 3
\* text API, scaled down: default limit (10), smallest page size when
\* replies are filtered (20), largest limit and page size (1000)
DEFAULT_LIMIT == 1
MIN_PAGE_SIZE == 2
LIMIT_CAP == 2
\* number of response times fed to the window
MaxSamples == 11
\* largest limit for which a page size is computed
MaxAskedLimit == 101
\* operations submitted to the queue under fairness
LiveTasks == 6
\* calls of fetchWithCache
MaxFetches == 3

VARIABLES
    now,            \* Date.now()
    cache,          \* CacheManager.cache: entries in Map insertion order
    size,           \* CacheManager.size: running total-size counter
    pendingSets,    \* per caller of set(): its call suspended at `await this.generateETag(data)`
    written,        \* per key: what the last completed set() stored, while resident
    lastGet,        \* the get() call of the last step, with its result
    lastEvict       \* the eviction loop of the last step's set() call

VARIABLES
    bqueue,         \* BatchProcessor.queue: the items {key, resolve, reject}, by caller
    processing,     \* BatchProcessor.processing
    timer,          \* BatchProcessor.timer: "null", "armed" or "fired" (a handle that ran)
    currentBatch,   \* the batch taken by the last process() that passed its guard
    waiter,         \* the add() call suspended at `await this.process()`, or 0
    callers         \* per add() call: its position, key, producer, flush and promise

VARIABLES
    queue,          \* RequestQueue.queue: the submitted operations not yet dequeued
    running,        \* RequestQueue.running
    failures,       \* RequestQueue.failures, per endpoint (absent reads as 0)
    lastFailureTime,\* RequestQueue.lastFailureTime, per endpoint (absent reads as 0)
    responseTimes,  \* RequestQueue.responseTimes
    currentDelay,   \* RequestQueue.currentDelay, in 1/1000 ms
    tasks,          \* per operation passed to add(): its position and what it carries
    maxStarted,     \* the latest-submitted operation whose fn has been invoked
    streak,         \* per endpoint: upstream failures since its last success
    openUntil,      \* per endpoint: resetTimeout after the last failure that
                    \* left the endpoint with failureThreshold failures in a row
    lastRefusal     \* the last rejection by the circuit breaker

VARIABLES
    rpc,            \* fetchWithRetry: "idle", "fetching", "sleeping", "returned", "thrown"
    rurl,           \* the url (endpoint) of the call
    retryCount,     \* the retryCount argument of the innermost call
    upstream,       \* the fetch in progress: its retryCount and whether the
                    \* circuit of its endpoint was open when it was sent
    sleeps,         \* the backoff delays slept so far
    answers,        \* what the upstream answered to each attempt so far
    rresult         \* the Response returned or the Error thrown

VARIABLES
    fpc,            \* resolveFid: "idle", "primary", "fallback", "caching",
                    \* "returned", "thrown"
    flookups,       \* the urls the call passed to fetchWithTimeout so far
    fresult,        \* the fid returned, as a set ({} before)
    fsource,        \* where the returned fid came from: the cache (with the
                    \* age of the entry and what set() had stored) or upstream
    fpending,       \* the entry of the set() suspended at generateETag
    fcalls          \* number of calls made

VARIABLES
    ppc,            \* the pagination loop: "idle", "fetching" (a page is
                    \* requested), "done", "thrown", "aborted"
    popts,          \* the options of the call
    feed,           \* the messages the upstream holds, in the asked order
    served,         \* how many of them the upstream has returned
    pageToken,      \* the loop's pageToken: 0 when undefined, else the cursor
    casts,          \* fetchCasts: the casts array (positions in the feed)
    castCount,      \* streaming loop: castCount
    emitted,        \* streaming loop: the post blocks written
    requests,       \* number of page requests issued
    exhausted,      \* the upstream has answered a page without a token
    reordered       \* the lookups of a page of fetchCasts did not complete
                    \* in the order of the page

VARIABLES
    spc,            \* the streaming callback: what it awaits ("idle" before
                    \* it starts, "end" once it has returned)
    typedQuery,     \* the query, as the handler received it
    sfeed,          \* the messages the upstream holds, in the asked order
    sserved,        \* how many of them the upstream has returned
    stoken,         \* pageToken: 0 when undefined, else the cursor
    scur,           \* position of the message the for loop is at
    scastCount,     \* castCount
    sprocessed,     \* processedCount
    saborted,       \* signal.aborted
    slog            \* the fragments written and the calls made, in order

VARIABLES
    crpc,           \* fetchCastReactions: "idle", "awaitAdd", "returned",
                    \* "thrown"
    crlookups,      \* the four reaction lookups made for the item
    crtimer,        \* the batch window of the item: "null", "armed", "fired"
    crpromise,      \* the settlement of the promise add() returned
    crvalue,        \* the reactions returned
    crfailed        \* a lookup had failed when the call returned

VARIABLES
    papc,           \* fetchParentCasts: "idle", "batch", "sleep", "done"
    parefs,         \* the parentHash of each cast of `casts` (0: none)
    pabatches,      \* the batches not finished yet
    palookups,      \* the castById lookup of each hash
    pasent,         \* how many lookups were made for each hash
    parentCasts,    \* the hashes that have an entry in parentCasts
    paattached      \* the parentCast each cast got (0: none)

VARIABLES
    udpc,           \* fetchUserData: "idle", "userData", "casts", "returned",
                    \* "thrown"
    udarg,          \* what it was called with (the fid, or the fid its
                    \* handle resolves to, 0 when resolution fails)
    udfid,          \* its local `fid`
    uduser          \* its local `user`

VARIABLES
    tpc,            \* server fetchUserData: "idle", "user", "page",
                    \* "returned", "thrown"
    topts,          \* params
    tfeed,          \* what the upstream holds for the fid
    tserved,        \* how many of its messages the pages have carried
    allCasts,       \* positions of the casts pushed to allCasts
    nonReplyCasts,  \* positions of the casts pushed to nonReplyCasts
    tcasts          \* the `casts` returned

VARIABLES
    adWindow,       \* RequestQueue.responseTimes, fed one sample at a time
    adDelay,        \* RequestQueue.currentDelay, in 1/1000 ms
    adSampled       \* number of response times recorded

VARIABLES
    asked           \* the last page size computed: where, for which
                    \* options, and the size

VARIABLES
    merged          \* the last profile merge: where, for which query and
                    \* response, and the user it produced

VARIABLES
    fwc             \* fetchWithCache: where the call is, what it returned,
                    \* and where its background revalidation is

cacheVars == <<cache, size, pendingSets, written, lastGet, lastEvict>>
batchVars == <<bqueue, processing, timer, currentBatch, waiter, callers>>
queueVars == <<queue, running, failures, lastFailureTime, responseTimes,
               currentDelay, tasks, maxStarted, streak, openUntil, lastRefusal>>
retryVars == <<rpc, rurl, retryCount, upstream, sleeps, answers, rresult>>
\* the queue's state other than the circuit breaker's two maps
queueRest == <<queue, running, responseTimes, currentDelay, tasks, maxStarted,
               streak, openUntil, lastRefusal>>
resolveVars == <<fpc, flookups, fresult, fsource, fpending, fcalls>>
\* the cache's state other than the Map, its size counter and `written`
cacheRest == <<pendingSets, lastGet, lastEvict>>
pageVars == <<ppc, popts, feed, served, pageToken, casts, castCount, emitted,
              requests, exhausted, reordered>>
streamVars == <<spc, typedQuery, sfeed, sserved, stoken, scur, scastCount,
                sprocessed, saborted, slog>>
reactVars == <<crpc, crlookups, crtimer, crpromise, crvalue, crfailed>>
parentVars == <<papc, parefs, pabatches, palookups, pasent, parentCasts,
                paattached>>
profileVars == <<udpc, udarg, udfid, uduser>>
textVars == <<tpc, topts, tfeed, tserved, allCasts, nonReplyCasts, tcasts>>
delayVars == <<adWindow, adDelay, adSampled>>
sizeVars == <<asked>>
mergeVars == <<merged>>
fetchVars == <<fwc>>
vars == <<now, cacheVars, batchVars, queueVars, retryVars, resolveVars,
          pageVars, streamVars, reactVars, parentVars, profileVars, textVars,
          delayVars, sizeVars, mergeVars, fetchVars>>
\* what an action of one component leaves alone
notCache == <<batchVars, queueVars, retryVars, resolveVars, pageVars,
              streamVars, reactVars, parentVars, profileVars, textVars,
              delayVars, sizeVars, mergeVars, fetchVars>>
notBatch == <<now, cacheVars, queueVars, retryVars, resolveVars, pageVars,
              streamVars, reactVars, parentVars, profileVars, textVars,
              delayVars, sizeVars, mergeVars, fetchVars>>
notQueue == <<cacheVars, batchVars, retryVars, resolveVars, pageVars,
              streamVars, reactVars, parentVars, profileVars, textVars,
              delayVars, sizeVars, mergeVars, fetchVars>>
notRetry == <<now, cacheVars, batchVars, queueRest, resolveVars,
              pageVars, streamVars, reactVars, parentVars, profileVars,
              textVars, delayVars, sizeVars, mergeVars, fetchVars>>
notResolve == <<now, cacheRest, batchVars, queueVars, pageVars, streamVars,
                reactVars, parentVars, profileVars, textVars, delayVars,
                sizeVars, mergeVars, fetchVars>>
notPage == <<now, cacheVars, batchVars, queueVars, retryVars, resolveVars,
             streamVars, reactVars, parentVars, profileVars, textVars,
             delayVars, sizeVars, mergeVars, fetchVars>>
notStream == <<now, cacheVars, batchVars, queueVars, retryVars, resolveVars,
               pageVars, reactVars, parentVars, profileVars, textVars,
               delayVars, sizeVars, mergeVars, fetchVars>>
notReact == <<now, cacheVars, batchVars, queueVars, retryVars, resolveVars,
              pageVars, streamVars, parentVars, profileVars, textVars,
              delayVars, sizeVars, mergeVars, fetchVars>>
notParents == <<now, cacheVars, batchVars, queueVars, retryVars, resolveVars,
                pageVars, streamVars, reactVars, profileVars, textVars,
                delayVars, sizeVars, mergeVars, fetchVars>>
notProfile == <<now, cacheVars, batchVars, queueVars, retryVars, resolveVars,
                pageVars, streamVars, reactVars, parentVars, textVars,
                delayVars, sizeVars, mergeVars, fetchVars>>
notText == <<now, cacheVars, batchVars, queueVars, retryVars, resolveVars,
             pageVars, streamVars, reactVars, parentVars, profileVars,
             delayVars, sizeVars, mergeVars, fetchVars>>
notDelay == <<now, cacheVars, batchVars, queueVars, retryVars, resolveVars,
              pageVars, streamVars, reactVars, parentVars, profileVars,
              textVars, sizeVars, mergeVars, fetchVars>>
notSize == <<now, cacheVars, batchVars, queueVars, retryVars, resolveVars,
             pageVars, streamVars, reactVars, parentVars, profileVars,
             textVars, delayVars, mergeVars, fetchVars>>
notMerge == <<now, cacheVars, batchVars, queueVars, retryVars, resolveVars,
              pageVars, streamVars, reactVars, parentVars, profileVars,
              textVars, delayVars, sizeVars, fetchVars>>
notFetch == <<now, cacheVars, batchVars, queueVars, retryVars, resolveVars,
              pageVars, streamVars, reactVars, parentVars, profileVars,
              textVars, delayVars, sizeVars, mergeVars>>
notFetchNorCache == <<batchVars, queueVars, retryVars, resolveVars, pageVars,
                      streamVars, reactVars, parentVars, profileVars,
                      textVars, delayVars, sizeVars, mergeVars>>

None == [none |-> TRUE]
Running == [running |-> TRUE]

\* -------------------------------------------------------------------
\* CacheManager
\* -------------------------------------------------------------------
\* one more key than the item ceiling, so that the ceiling can be exceeded
Keys == 1..(MAX_CACHE_ITEMS + 1)
\* payloads are JSON strings; JSON.stringify adds the two quotes
Data == {"a", "bbbb"}
TTLs == {DEFAULT_TTL, USERNAME_RESOLUTION_TTL}
\* the clock is sampled every CacheTickStep ms: ages equal to a ttl and to
\* ttl + STALE_WHILE_REVALIDATE are among the samples
CacheTickStep == USERNAME_RESOLUTION_TTL
\* the clock stops at the longest ttl + window
CacheHorizon == USERNAME_RESOLUTION_TTL + STALE_WHILE_REVALIDATE
\* the functions that await cacheManager.set(...); each has at most one call
\* suspended inside set() at a time, and the calls of different functions
\* interleave at the await
SetCallers == {"fetchWithCache", "fetchCastReactions"}
\* keys are interchangeable: a set call uses a key that is cached or being
\* set, or the first key that is neither
KeysInUse == {cache[i].key : i \in 1..Len(cache)}
                 \cup {pendingSets[f].key : f \in {g \in SetCallers : pendingSets[g] # None}}
KeysToSet ==
    KeysInUse \cup (IF KeysInUse = Keys THEN {}
                    ELSE {CHOOSE k \in Keys \ KeysInUse :
                             \A other \in Keys \ KeysInUse : k <= other})

SerializedLength(data) == Len(data) + 2

\* cap of the running size counter, which can drift above the ceiling
SizeCounterCap == MAX_CACHE_SIZE + SerializedLength("a")

\* this.cache.get(key): the entry of key, or None
IndexOf(c, key) ==
    IF \E i \in 1..Len(c) : c[i].key = key
    THEN CHOOSE i \in 1..Len(c) : c[i].key = key
    ELSE 0

CacheLookup(c, key) ==
    IF IndexOf(c, key) = 0 THEN None ELSE c[IndexOf(c, key)]

\* this.cache.delete(key)
CacheDelete(c, key) ==
    SelectSeq(c, LAMBDA e : e.key # key)

\* this.cache.set(key, entry): an existing key keeps its place in the Map
CachePut(c, entry) ==
    IF IndexOf(c, entry.key) = 0
    THEN Append(c, entry)
    ELSE [c EXCEPT ![IndexOf(c, entry.key)] = entry]

\* OldestIndex with the comparator of the sort reversed (b.timestamp - a.timestamp)
NewestIndex(c) ==
    CHOOSE i \in 1..Len(c) :
        /\ \A j \in 1..Len(c) : c[i].timestamp >= c[j].timestamp
        /\ \A j \in 1..(i - 1) : c[j].timestamp # c[i].timestamp

\* Array.from(cache.entries()).sort(by timestamp)[0]: the sort is stable, so
\* the first entry of the sorted array is the first entry in Map order among
\* those with the least timestamp.
OldestIndex(c) ==
    CHOOSE i \in 1..Len(c) :
        /\ \A j \in 1..Len(c) : c[i].timestamp <= c[j].timestamp
        /\ \A j \in 1..(i - 1) : c[j].timestamp # c[i].timestamp

\* the condition of the while loop of set()
NeedsEviction(c, sz, newSize) ==
    sz + newSize > MAX_CACHE_SIZE \/ Len(c) >= MAX_CACHE_ITEMS

\* The while loop of set(): result is the cache, the size counter and the
\* evictions made, each with the timestamps present just before it.
RECURSIVE EvictLoop(_, _, _, _)
EvictLoop(c, sz, newSize, evicted) ==
    IF ~NeedsEviction(c, sz, newSize) \/ Len(c) = 0
    THEN [cache |-> c, size |-> sz, evicted |-> evicted]
    ELSE LET i == OldestIndex(c)
         IN  EvictLoop(CacheDelete(c, c[i].key),
                       sz - SerializedLength(c[i].data),
                       newSize,
                       Append(evicted,
                              [key |-> c[i].key,
                               timestamp |-> c[i].timestamp,
                               present |-> {c[j].timestamp : j \in 1..Len(c)}]))

\* GetResult with `stale: age >= ttl` in place of `stale: age > ttl`
GetResultStaleAtTtl(entry, ttl, at) ==
    LET age == at - entry.timestamp
    IN  IF age > ttl + STALE_WHILE_REVALIDATE
        THEN None
        ELSE [data |-> entry.data, stale |-> age >= ttl]

\* the value get() returns for an entry that is present
GetResult(entry, ttl, at) ==
    LET age == at - entry.timestamp
    IN  IF age > ttl + STALE_WHILE_REVALIDATE
        THEN None
        ELSE [data |-> entry.data, stale |-> age > ttl]

\* lastGet and lastEvict hold what the call of the last step did, until
\* control is back at the event loop (CacheYield)
AtEventLoop == lastGet = None /\ lastEvict = None

\* CacheManager.get(key, ttl)
CacheGet(key, ttl) ==
    LET cached == CacheLookup(cache, key)
        result == IF cached = None THEN None ELSE GetResult(cached, ttl, now)
        expired == cached # None /\ result = None
    IN  /\ AtEventLoop
        /\ cache' = IF expired THEN CacheDelete(cache, key) ELSE cache
        /\ size' = IF expired THEN size - SerializedLength(cached.data) ELSE size
        /\ written' = IF expired THEN [written EXCEPT ![key] = None] ELSE written
        /\ lastGet' = IF cached = None /\ written[key] = None THEN None
                       ELSE [ttl |-> ttl, wrote |-> written[key], result |-> result]
        /\ lastEvict' = None
        /\ UNCHANGED <<now, pendingSets, notCache>>

\* CacheManager.set(key, data, ttl) up to `await this.generateETag(data)`:
\* the serialized size, the eviction loop and the timestamp of the new entry
\* (Date.now() is evaluated before the await).
CacheSetEvict(caller, key, data) ==
    LET newSize == SerializedLength(data)
        r == EvictLoop(cache, size, newSize, <<>>)
        gone == {r.evicted[i].key : i \in 1..Len(r.evicted)}
    IN  /\ AtEventLoop
        /\ pendingSets[caller] = None
        /\ cache' = r.cache
        /\ size' = r.size
        /\ pendingSets' = [pendingSets EXCEPT ![caller] =
                              [key |-> key, data |-> data,
                               timestamp |-> now, size |-> newSize]]
        /\ written' = [k \in Keys |-> IF k \in gone THEN None ELSE written[k]]
        /\ lastEvict' = [evicted |-> [i \in 1..Len(r.evicted) |->
                                          [timestamp |-> r.evicted[i].timestamp,
                                           present |-> r.evicted[i].present]],
                         newSize |-> newSize]
        /\ lastGet' = None
        /\ UNCHANGED <<now, notCache>>

\* CacheManager.set after the await: this.cache.set(key, entry); this.size += size
CacheSetInsert(caller) ==
    LET p == pendingSets[caller]
    IN  /\ AtEventLoop
        /\ p # None
        /\ size + p.size <= SizeCounterCap
        /\ cache' = CachePut(cache, [key |-> p.key, data |-> p.data,
                                     timestamp |-> p.timestamp])
        /\ size' = size + p.size
        /\ pendingSets' = [pendingSets EXCEPT ![caller] = None]
        /\ written' = [written EXCEPT ![p.key] =
                          [data |-> p.data, timestamp |-> p.timestamp]]
        /\ lastGet' = None
        /\ lastEvict' = None
        /\ UNCHANGED <<now, notCache>>

\* the get() or the synchronous part of the set() of the last step is over
CacheYield ==
    /\ ~AtEventLoop
    /\ lastGet' = None
    /\ lastEvict' = None
    /\ UNCHANGED <<now, cache, size, pendingSets, written, notCache>>

\* the clock advances
CacheTick ==
    /\ AtEventLoop
    /\ now < CacheHorizon
    /\ now' = now + CacheTickStep
    /\ lastGet' = None
    /\ lastEvict' = None
    /\ UNCHANGED <<cache, size, pendingSets, written, notCache>>

\* -------------------------------------------------------------------
\* BatchProcessor
\* -------------------------------------------------------------------
CallerIds == 1..MaxCallers
BatchKeys == {"fid:1", "fid:2"}
\* what a producer (fetchFn) or processSingleItem settles with
Success == [ok |-> TRUE, value |-> "data"]
Failure == [ok |-> FALSE, value |-> "error"]
Settlements == {Success, Failure}

IdleCaller ==
    [pc |-> "idle", key |-> "", producer |-> None, flush |-> None,
     outcome |-> None, peers |-> {}]

InitBatch ==
    /\ bqueue = <<>>
    /\ processing = FALSE
    /\ timer = "null"
    /\ currentBatch = <<>>
    /\ waiter = 0
    /\ callers = [i \in CallerIds |-> IdleCaller]

SeqToSet(q) == {q[n] : n \in 1..Len(q)}

\* resolve(value) / reject(error) of a caller's promise: a promise settles once
Settle(c, r) ==
    IF c.outcome = None THEN [c EXCEPT !.outcome = r] ELSE c

\* the add() calls with the same key whose promise is not settled yet
InFlightWithKey(key) ==
    {j \in CallerIds : /\ callers[j].pc = "added"
                       /\ callers[j].key = key
                       /\ callers[j].outcome = None}

\* the body of `new Promise(...)` in add(): push the item, arm the timer,
\* invoke fetchFn
Push(cs, i, key) ==
    [cs EXCEPT ![i] = [pc |-> "added", key |-> key, producer |-> Running,
                       flush |-> None, outcome |-> None,
                       peers |-> InFlightWithKey(key)]]

ArmTimer ==
    IF ~processing /\ timer = "null" THEN "armed" ELSE timer

\* process() past its guard: take the batch and call processSingleItem(key)
\* for each of its items
StartFlush(cs, batch) ==
    [j \in CallerIds |->
        IF j \in SeqToSet(batch) THEN [cs[j] EXCEPT !.flush = Running] ELSE cs[j]]

\* RejectedByFlushFailure without the per-item try/catch: the failure reaches
\* every item of the batch
RejectedWholeBatch(i, batch) == SeqToSet(batch)

\* the callers whose reject is called when processSingleItem of item i of
\* the batch throws: the try/catch is per item
RejectedByFlushFailure(i, batch) == {i}

\* add() calls are numbered in the order they are made
\* keys are interchangeable: the first call is made with the first key
KeysOf(i) == IF i = 1 THEN {CHOOSE k \in BatchKeys : TRUE} ELSE BatchKeys

NextCaller(i) ==
    /\ callers[i].pc = "idle"
    /\ \A j \in 1..(i - 1) : callers[j].pc # "idle"

\* add(key, fetchFn) with room in the queue
AddPush(i, key) ==
    /\ NextCaller(i)
    /\ Len(bqueue) < MAX_BATCH_SIZE
    /\ bqueue' = Append(bqueue, i)
    /\ timer' = ArmTimer
    /\ callers' = Push(callers, i, key)
    /\ UNCHANGED <<processing, currentBatch, waiter, notBatch>>

\* add(key, fetchFn) with a full queue: `await this.process()`; process()
\* returns at once while another process() is running
AddFull(i, key) ==
    /\ NextCaller(i)
    /\ Len(bqueue) >= MAX_BATCH_SIZE
    /\ UNCHANGED notBatch
    /\ IF processing
       THEN /\ callers' = [callers EXCEPT ![i] = [@ EXCEPT !.pc = "resumed", !.key = key]]
            /\ UNCHANGED <<bqueue, processing, timer, currentBatch, waiter>>
       ELSE /\ processing' = TRUE
            /\ timer' = "null"
            /\ currentBatch' = bqueue
            /\ bqueue' = <<>>
            /\ waiter' = i
            /\ callers' = [StartFlush(callers, bqueue) EXCEPT
                              ![i] = [@ EXCEPT !.pc = "awaitProcess", !.key = key]]

\* add() after `await this.process()`
AddResume(i) ==
    /\ callers[i].pc = "resumed"
    /\ bqueue' = Append(bqueue, i)
    /\ timer' = ArmTimer
    /\ callers' = Push(callers, i, callers[i].key)
    /\ UNCHANGED <<processing, currentBatch, waiter, notBatch>>

\* the batch-window timer runs: `void this.process()`
TimerFire ==
    /\ timer = "armed"
    /\ UNCHANGED notBatch
    /\ IF processing \/ Len(bqueue) = 0
       THEN /\ timer' = "fired"
            /\ UNCHANGED <<bqueue, processing, currentBatch, waiter, callers>>
       ELSE /\ processing' = TRUE
            /\ timer' = "null"
            /\ currentBatch' = bqueue
            /\ bqueue' = <<>>
            /\ callers' = StartFlush(callers, bqueue)
            /\ UNCHANGED waiter

\* fetchFn() of caller i settles: `.then(resolve).catch(reject)`
ProducerDone(i, r) ==
    /\ callers[i].producer = Running
    /\ callers' = [callers EXCEPT ![i] = Settle([@ EXCEPT !.producer = r], r)]
    /\ UNCHANGED <<bqueue, processing, timer, currentBatch, waiter, notBatch>>

\* processSingleItem(key) of item i of the batch settles: resolve(result), or
\* reject(error) in the catch of that item
FlushDone(i, r) ==
    /\ callers[i].flush = Running
    /\ callers' =
          [j \in CallerIds |->
              IF j = i THEN Settle([callers[j] EXCEPT !.flush = r], r)
              ELSE IF ~r.ok /\ j \in RejectedByFlushFailure(i, currentBatch)
                   THEN Settle(callers[j], r)
                   ELSE callers[j]]
    /\ UNCHANGED <<bqueue, processing, timer, currentBatch, waiter, notBatch>>

\* Promise.all of the batch is settled: `finally { this.processing = false }`,
\* and the add() that awaited this process() goes on
ProcessEnd ==
    /\ processing
    /\ \A j \in SeqToSet(currentBatch) : callers[j].flush \in Settlements
    /\ processing' = FALSE
    /\ waiter' = 0
    /\ callers' = IF waiter = 0 THEN callers
                  ELSE [callers EXCEPT ![waiter] = [@ EXCEPT !.pc = "resumed"]]
    /\ UNCHANGED <<bqueue, timer, currentBatch, notBatch>>

NextBatch ==
    \/ \E i \in CallerIds : \E key \in KeysOf(i) : AddPush(i, key)
    \/ \E i \in CallerIds : \E key \in KeysOf(i) : AddFull(i, key)
    \/ \E i \in CallerIds : AddResume(i)
    \/ TimerFire
    \/ \E i \in CallerIds, r \in Settlements : ProducerDone(i, r)
    \/ \E i \in CallerIds, r \in Settlements : FlushDone(i, r)
    \/ ProcessEnd

\* -------------------------------------------------------------------
\* RequestQueue
\* -------------------------------------------------------------------
TaskIds == 1..MaxTasks
\* the endpoint argument of add() is the request URL
Endpoints == {"/v1/userNameProofByName", "/v1/userDataByUsername"}
\* the clock of the queue model is sampled every QueueTickStep ms, until it
\* is past the time at which isCircuitOpen resets a count whose last failure
\* was at 0
QueueTickStep == resetTimeout
QueueHorizon == resetTimeout + halfOpenTimeout

NewTask == [pc |-> "new"]
\* an operation whose promise has settled and whose closure has returned
Settled == [pc |-> "settled"]

InitQueue ==
    /\ queue = <<>>
    /\ running = 0
    /\ failures = [e \in Endpoints |-> 0]
    /\ lastFailureTime = [e \in Endpoints |-> 0]
    /\ responseTimes = <<>>
    /\ currentDelay = REQUEST_QUEUE_DELAY * 1000
    /\ tasks = [t \in TaskIds |-> NewTask]
    /\ maxStarted = 0
    /\ streak = [e \in Endpoints |-> 0]
    /\ openUntil = [e \in Endpoints |-> 0]
    /\ lastRefusal = None

RECURSIVE SumSeq(_)
SumSeq(q) == IF q = <<>> THEN 0 ELSE Head(q) + SumSeq(Tail(q))

\* The variance of adjustDelay is sum((x - avg)^2) / n with avg = sum(x) / n,
\* that is (n * sum(x^2) - sum(x)^2) / n^2. Every sample is a multiple of
\* QueueTickStep; with k = x / QueueTickStep the variance is
\* QueueTickStep^2 * Spread / n^2, and the two comparisons of adjustDelay
\* are made on the integer Spread, exactly and within 32 bits.
\* Samples that are not all multiples of QueueTickStep are small, and the
\* same is computed on them as they are.
SampleUnit(rt) ==
    IF \A i \in 1..Len(rt) : rt[i] % QueueTickStep = 0
    THEN QueueTickStep ELSE 1

Spread(rt) ==
    LET k == [i \in 1..Len(rt) |-> rt[i] \div SampleUnit(rt)]
        sq == [i \in 1..Len(rt) |-> k[i] * k[i]]
    IN  Len(rt) * SumSeq(sq) - SumSeq(k) * SumSeq(k)

\* variance > limit
VarianceAbove(rt, limit) ==
    Spread(rt) > (limit * Len(rt) * Len(rt)) \div (SampleUnit(rt) * SampleUnit(rt))

\* variance < limit
VarianceBelow(rt, limit) ==
    Spread(rt) <= (limit * Len(rt) * Len(rt) - 1) \div (SampleUnit(rt) * SampleUnit(rt))

Min(a, b) == IF a <= b THEN a ELSE b
Max(a, b) == IF a >= b THEN a ELSE b

\* adjustDelay() without the two clamps
AdjustDelayUnclamped(rt, delay) ==
    IF Len(rt) < 2 THEN delay
    ELSE IF VarianceAbove(rt, 1000) THEN (delay * 12) \div 10
    ELSE IF VarianceBelow(rt, 100) THEN (delay * 8) \div 10
    ELSE delay

\* adjustDelay(): the delay is kept in 1/1000 ms, products rounded down
AdjustDelay(rt, delay) ==
    IF Len(rt) < 2 THEN delay
    ELSE IF VarianceAbove(rt, 1000) THEN Min((delay * 12) \div 10, 500 * 1000)
    ELSE IF VarianceBelow(rt, 100) THEN Max((delay * 8) \div 10, 50 * 1000)
    ELSE delay

\* responseTimes.push(responseTime); if (length > 10) shift()
PushResponseTime(rt, responseTime) ==
    LET pushed == Append(rt, responseTime)
    IN  IF Len(pushed) > 10 THEN Tail(pushed) ELSE pushed

\* `failures >= CIRCUIT_BREAKER_CONFIG.failureThreshold`
AtThreshold(count) == count >= failureThreshold

KeepCount(f, e) == f
\* this.failures.set(endpoint, 0)
ResetCount(f, e) == [f EXCEPT ![e] = 0]

\* isCircuitOpen(endpoint): its result, and the failures map it leaves
IsCircuitOpen(e) ==
    IF AtThreshold(failures[e])
    THEN IF now - lastFailureTime[e] < resetTimeout
         THEN [open |-> TRUE, failures |-> failures]
         ELSE IF now - lastFailureTime[e] < resetTimeout + halfOpenTimeout
              THEN [open |-> FALSE, failures |-> failures]
              ELSE [open |-> FALSE, failures |-> ResetCount(failures, e)]
    ELSE [open |-> FALSE, failures |-> failures]

MayDequeueAtCeiling(r, q) == ~(r > MAX_CONCURRENT_REQUESTS \/ Len(q) = 0)
\* the second branch of isCircuitOpen: the count is at the threshold and the
\* last failure is between resetTimeout and resetTimeout + halfOpenTimeout old
InHalfOpen(e) ==
    /\ AtThreshold(failures[e])
    /\ now - lastFailureTime[e] >= resetTimeout
    /\ now - lastFailureTime[e] < resetTimeout + halfOpenTimeout

\* the guard of processQueue() letting one operation run at a time
MayDequeueWhenIdle(r, q) == ~(r >= 1 \/ Len(q) = 0)

\* the guard of processQueue()
MayDequeue(r, q) == ~(r >= MAX_CONCURRENT_REQUESTS \/ Len(q) = 0)

\* processQueue() up to `await sleep(this.currentDelay)`: the head of the
\* queue is taken and sleeps for the delay current at that moment. `instant`
\* says that no timer has run out since this one was set.
ProcessQueue(q, r, ts, delay) ==
    IF MayDequeue(r, q)
    THEN [queue |-> Tail(q), running |-> r + 1,
          tasks |-> [ts EXCEPT ![Head(q)] =
                        [pc |-> "sleeping", endpoint |-> ts[Head(q)].endpoint,
                         delay |-> delay, instant |-> TRUE]]]
    ELSE [queue |-> q, running |-> r, tasks |-> ts]

\* operations are numbered in the order they are submitted
NextTask(t) ==
    /\ tasks[t].pc = "new"
    /\ \A u \in 1..(t - 1) : tasks[u].pc # "new"
\* Endpoints are interchangeable, so the first operation goes to the first
\* endpoint; the operations up to MixedTasks choose theirs, the later ones
\* go to the first endpoint again.
FirstEndpoint == CHOOSE e \in Endpoints : TRUE
EndpointsOf(t) == IF t = 1 \/ t > MixedTasks THEN {FirstEndpoint} ELSE Endpoints

\* The timer of a sleeping operation runs out. Operations are dequeued in
\* the order of their numbers. The timer of one dequeued later runs out
\* first when its delay is shorter by more than the time between the two
\* dequeues: that time is as short as one likes when only completions of
\* calls already in flight and calls of add lie between them, and it is taken
\* to be too long as soon as a timer has run out in between. Timers of equal
\* expiry run in the order they were set.
TimerMayFire(t) ==
    /\ tasks[t].pc = "sleeping"
    /\ \A u \in 1..(t - 1) :
          tasks[u].pc = "sleeping" =>
              tasks[u].instant /\ tasks[u].delay > tasks[t].delay

\* operation t has left its sleep: for the timers still pending, a timer has
\* run out since they were set
TimerRanOut(t, next) ==
    [u \in TaskIds |->
        IF u = t THEN next
        ELSE IF tasks[u].pc = "sleeping"
        THEN [tasks[u] EXCEPT !.instant = FALSE] ELSE tasks[u]]

\* add(fn, endpoint): push the closure, processQueue()
QueueAdd(t, e) ==
    LET pushed == [tasks EXCEPT ![t] = [pc |-> "queued", endpoint |-> e]]
        r == ProcessQueue(Append(queue, t), running, pushed, currentDelay)
    IN  /\ NextTask(t)
        /\ queue' = r.queue
        /\ running' = r.running
        /\ tasks' = r.tasks
        /\ UNCHANGED <<now, failures, lastFailureTime, responseTimes, currentDelay,
                       maxStarted, streak, openUntil, lastRefusal, notQueue>>

\* next() after the sleep, circuit open: throw, catch (count the failure,
\* stamp it), reject, finally (running--, processQueue())
QueueRefuse(t) ==
    LET e == tasks[t].endpoint
        c == IsCircuitOpen(e)
        r == ProcessQueue(queue, running - 1, TimerRanOut(t, Settled),
                          currentDelay)
    IN  /\ TimerMayFire(t)
        /\ c.open
        /\ failures' = [c.failures EXCEPT ![e] = @ + 1]
        /\ lastFailureTime' = [lastFailureTime EXCEPT ![e] = now]
        /\ queue' = r.queue
        /\ running' = r.running
        /\ tasks' = r.tasks
        /\ lastRefusal' = [endpoint |-> e, failures |-> failures[e],
                           streak |-> streak[e]]
        /\ UNCHANGED <<now, responseTimes, currentDelay, maxStarted, streak,
                       openUntil, notQueue>>

\* next() after the sleep, circuit not open: startTime = Date.now(); fn()
QueueStart(t) ==
    LET e == tasks[t].endpoint
        c == IsCircuitOpen(e)
    IN  /\ TimerMayFire(t)
        /\ ~c.open
        /\ failures' = c.failures
        /\ tasks' = TimerRanOut(t,
                        [pc |-> "inflight", endpoint |-> e, startTime |-> now,
                         late |-> t < maxStarted,
                         whileOpen |-> now < openUntil[e],
                         trial |-> InHalfOpen(e)])
        /\ maxStarted' = Max(maxStarted, t)
        /\ UNCHANGED <<now, queue, running, lastFailureTime, responseTimes,
                       currentDelay, streak, openUntil, lastRefusal, notQueue>>

\* fn() resolves: record the response time, adjustDelay(), reset the count,
\* resolve, finally (running--, processQueue())
QueueResolve(t) ==
    LET e == tasks[t].endpoint
        rt == PushResponseTime(responseTimes, now - tasks[t].startTime)
        delay == AdjustDelay(rt, currentDelay)
        r == ProcessQueue(queue, running - 1,
                          [tasks EXCEPT ![t] = Settled], delay)
    IN  /\ tasks[t].pc = "inflight"
        /\ responseTimes' = rt
        /\ currentDelay' = delay
        /\ failures' = ResetCount(failures, e)
        /\ queue' = r.queue
        /\ running' = r.running
        /\ tasks' = r.tasks
        /\ streak' = [streak EXCEPT ![e] = 0]
        /\ UNCHANGED <<now, lastFailureTime, maxStarted, openUntil, lastRefusal,
                       notQueue>>

\* fn() rejects: catch (count the failure, stamp it), reject, finally
QueueReject(t) ==
    LET e == tasks[t].endpoint
        r == ProcessQueue(queue, running - 1,
                          [tasks EXCEPT ![t] = Settled], currentDelay)
    IN  /\ tasks[t].pc = "inflight"
        /\ failures' = [failures EXCEPT ![e] = @ + 1]
        /\ lastFailureTime' = [lastFailureTime EXCEPT ![e] = now]
        /\ queue' = r.queue
        /\ running' = r.running
        /\ tasks' = r.tasks
        /\ streak' = [streak EXCEPT ![e] = @ + 1]
        /\ openUntil' = IF streak[e] + 1 >= failureThreshold
                        THEN [openUntil EXCEPT ![e] = now + resetTimeout]
                        ELSE openUntil
        /\ UNCHANGED <<now, responseTimes, currentDelay, maxStarted, lastRefusal,
                       notQueue>>

\* The clock advances by one sample. A sleep lasts at most 500 ms, so no
\* timer is still pending one sample later; fetchWithRetry makes at most
\* MAX_RETRIES + 1 attempts of at most API_TIMEOUT ms with 7000 ms of
\* backoff between them, so no operation started a sample ago is still in
\* flight when the next sample is reached.
QueueTick ==
    /\ now < QueueHorizon
    /\ \A t \in TaskIds : tasks[t].pc # "sleeping"
    /\ \A t \in TaskIds : tasks[t].pc = "inflight" => tasks[t].startTime = now
    /\ now' = now + QueueTickStep
    /\ UNCHANGED <<queue, running, failures, lastFailureTime, responseTimes,
                   currentDelay, tasks, maxStarted, streak, openUntil,
                   lastRefusal, notQueue>>

NextQueue ==
    \/ \E t \in TaskIds : \E e \in EndpointsOf(t) : QueueAdd(t, e)
    \/ \E t \in TaskIds : QueueRefuse(t)
    \/ \E t \in TaskIds : QueueStart(t)
    \/ \E t \in TaskIds : QueueResolve(t)
    \/ \E t \in TaskIds : QueueReject(t)
    \/ QueueTick

\* -------------------------------------------------------------------
\* fetchWithTimeout / fetchWithRetry
\* -------------------------------------------------------------------
\* the fid of a JSON body: {} when the field is missing, {n} otherwise
Fids == {{}, {-1}, {0}, {1}, {2}}

\* what one `await fetch(url, ...)` can come to: a Response (ok or not; of a
\* Response that is not ok, its status and whether its text contains "429"),
\* the abort of the API_TIMEOUT timer, or a network error
OkAnswers == [kind : {"response"}, ok : {TRUE}, status : {200}, has429 : {FALSE},
              fid : Fids]
NotOkAnswers ==
    [kind : {"response"}, ok : {FALSE}, status : {429}, has429 : {FALSE}, fid : {{}}]
    \cup [kind : {"response"}, ok : {FALSE}, status : {500}, has429 : BOOLEAN,
          fid : {{}}]
Aborted == [kind |-> "abort", ok |-> FALSE, status |-> 0, has429 |-> FALSE, fid |-> {}]
NetworkError ==
    [kind |-> "network", ok |-> FALSE, status |-> 0, has429 |-> FALSE, fid |-> {}]
Answers == OkAnswers \cup NotOkAnswers \cup {Aborted, NetworkError}

\* `new Error(...)`: what the handlers look at
\* `API request failed: ${status} ${statusText} - ${errorText}`
ApiError(a) == [name |-> "Error", timedOut |-> FALSE,
                has429 |-> (a.status = 429 \/ a.has429)]
\* `Request timed out after ${API_TIMEOUT}ms`
TimeoutError == [name |-> "Error", timedOut |-> TRUE, has429 |-> FALSE]
\* what fetch rejects with
FetchError(a) ==
    IF a.kind = "abort"
    THEN [name |-> "AbortError", timedOut |-> FALSE, has429 |-> FALSE]
    ELSE [name |-> "TypeError", timedOut |-> FALSE, has429 |-> FALSE]
\* `Circuit breaker open for ${endpoint}`
CircuitError == [name |-> "Error", timedOut |-> FALSE, has429 |-> FALSE]

RECURSIVE Pow2(_)
Pow2(k) == IF k = 0 THEN 1 ELSE 2 * Pow2(k - 1)
\* INITIAL_RETRY_DELAY * Math.pow(2, retryCount)
BackoffDelay(rc) == INITIAL_RETRY_DELAY * Pow2(rc)

MayRetryAtCeiling(rc) == rc <= MAX_RETRIES
\* `retryCount < MAX_RETRIES`
MayRetry(rc) == rc < MAX_RETRIES

\* the catch block of fetchWithRetry: "retry", or the error it throws
CatchOf(err, rc) ==
    IF err.name = "AbortError" THEN [do |-> "throw", error |-> TimeoutError]
    ELSE IF err.has429 /\ MayRetry(rc) THEN [do |-> "retry", error |-> err]
    ELSE [do |-> "throw", error |-> err]

\* the body of fetchWithRetry from the settlement of `await fetch` on
AfterFetch(a, rc) ==
    IF a.kind # "response" THEN CatchOf(FetchError(a), rc)
    ELSE IF a.ok THEN [do |-> "return", error |-> None]
    ELSE IF a.status = 429 /\ MayRetry(rc) THEN [do |-> "retry", error |-> ApiError(a)]
    ELSE CatchOf(ApiError(a), rc)

InitRetry ==
    /\ rpc = "idle"
    /\ rurl = FirstEndpoint
    /\ retryCount = 0
    /\ upstream = None
    /\ sleeps = <<>>
    /\ answers = <<>>
    /\ rresult = None

\* `fetch(url, ...)` is called
SendAttempt(e, rc) == [retryCount |-> rc, open |-> IsCircuitOpen(e).open]

\* the catch block of the queue's closure
CountFailure(e) ==
    /\ failures' = [failures EXCEPT ![e] = @ + 1]
    /\ lastFailureTime' = [lastFailureTime EXCEPT ![e] = now]

\* fetchWithTimeout(url): the queue's closure runs; the circuit is open and
\* the closure throws, counts a failure and rejects
GateRefuse(e) ==
    /\ rpc = "idle"
    /\ IsCircuitOpen(e).open
    /\ rpc' = "thrown"
    /\ rurl' = e
    /\ rresult' = CircuitError
    /\ CountFailure(e)
    /\ UNCHANGED <<retryCount, upstream, sleeps, answers, notRetry>>

\* fetchWithTimeout(url): the queue's closure runs; the circuit is not open
\* and the closure calls fn, which is fetchWithRetry(url, options) and
\* fetches
GateStart(e) ==
    /\ rpc = "idle"
    /\ ~IsCircuitOpen(e).open
    /\ failures' = IsCircuitOpen(e).failures
    /\ rpc' = "fetching"
    /\ rurl' = e
    /\ retryCount' = 0
    /\ upstream' = SendAttempt(e, 0)
    /\ UNCHANGED <<lastFailureTime, sleeps, answers, rresult, notRetry>>

\* `await fetch` settles; fetchWithRetry runs on to its return, its throw or
\* its `await sleep(delay)`; on a return or throw the queue's closure runs
\* on to its resolve or reject
FetchSettles(a) ==
    LET r == AfterFetch(a, retryCount)
    IN  /\ rpc = "fetching"
        /\ answers' = Append(answers, a)
        /\ upstream' = None
        /\ IF r.do = "return"
           THEN /\ rpc' = "returned"
                /\ rresult' = a
                /\ failures' = ResetCount(failures, rurl)
                /\ UNCHANGED <<lastFailureTime, sleeps>>
           ELSE IF r.do = "retry"
           THEN /\ rpc' = "sleeping"
                /\ sleeps' = Append(sleeps, BackoffDelay(retryCount))
                /\ UNCHANGED <<rresult, failures, lastFailureTime>>
           ELSE /\ rpc' = "thrown"
                /\ rresult' = r.error
                /\ CountFailure(rurl)
                /\ UNCHANGED sleeps
        /\ UNCHANGED <<rurl, retryCount, notRetry>>

\* the backoff is over: `return fetchWithRetry(url, options, retryCount + 1)`
BackoffOver ==
    /\ rpc = "sleeping"
    /\ rpc' = "fetching"
    /\ retryCount' = retryCount + 1
    /\ upstream' = SendAttempt(rurl, retryCount + 1)
    /\ UNCHANGED <<rurl, sleeps, answers, rresult, failures, lastFailureTime,
                   notRetry>>

\* another operation of the endpoint fails in the meantime: the catch block
\* of its closure
PeerFails(e) ==
    /\ failures[e] < MaxPeerFailures
    /\ CountFailure(e)
    /\ UNCHANGED <<retryVars, notRetry>>

NextRetry ==
    \/ \E e \in Endpoints : GateRefuse(e)
    \/ \E e \in Endpoints : GateStart(e)
    \/ \E a \in Answers : FetchSettles(a)
    \/ BackoffOver
    \/ \E e \in Endpoints : PeerFails(e)

\* -------------------------------------------------------------------
\* resolveFid
\* -------------------------------------------------------------------
Usernames == {"", "alice"}
ProofUrl == "/v1/userNameProofByName"
ProfileUrl == "/v1/userDataByUsername"
\* `username:${normalizedUsername}`
UsernameKey == 1

\* JSON.stringify({ fid }): with the two quotes that SerializedLength adds
\* the length is that of {"fid":1}
FidJson(n) == IF n = 1 THEN "{fid:1}" ELSE "{fid:2}"
\* cached.data.fid
FidOfJson(data) == IF data = "{fid:1}" THEN {1} ELSE {2}

ValidFidOrZero(fid) == ~(fid = {} \/ \E n \in fid : n < 0)
\* the negation of `!data.fid || data.fid <= 0`
ValidFid(fid) == ~(fid = {} \/ \E n \in fid : n = 0 \/ n <= 0)

InitResolve ==
    /\ fpc = "idle"
    /\ flookups = <<>>
    /\ fresult = {}
    /\ fsource = [kind |-> "none"]
    /\ fpending = None
    /\ fcalls = 0

\* the url of the fetchWithTimeout call that resolveFid awaits
Awaited(e) ==
    \/ fpc = "primary" /\ e = ProofUrl
    \/ fpc = "fallback" /\ e = ProfileUrl

\* resolveFid(username) up to its first fetchWithTimeout: the check of the
\* argument and cacheManager.get(cacheKey, USERNAME_RESOLUTION_TTL)
ResolveCall(username) ==
    LET cached == CacheLookup(cache, UsernameKey)
        result == IF cached = None THEN None
                  ELSE GetResult(cached, USERNAME_RESOLUTION_TTL, now)
        expired == cached # None /\ result = None
        hit == result # None /\ ~result.stale
    IN  /\ fpc \in {"idle", "returned", "thrown"}
        /\ fcalls < MaxResolves
        /\ fcalls' = fcalls + 1
        /\ fpending' = None
        /\ rpc' = "idle"
        /\ retryCount' = 0
        /\ upstream' = None
        /\ sleeps' = <<>>
        /\ answers' = <<>>
        /\ rresult' = None
        /\ IF username = ""
           THEN /\ fpc' = "thrown"
                /\ flookups' = <<>>
                /\ fresult' = {}
                /\ fsource' = [kind |-> "none"]
                /\ UNCHANGED <<cache, size, written>>
           ELSE /\ cache' = IF expired THEN CacheDelete(cache, UsernameKey) ELSE cache
                /\ size' = IF expired THEN size - SerializedLength(cached.data)
                           ELSE size
                /\ written' = IF expired THEN [written EXCEPT ![UsernameKey] = None]
                              ELSE written
                /\ fpc' = IF hit THEN "returned" ELSE "primary"
                /\ flookups' = IF hit THEN <<>> ELSE <<ProofUrl>>
                /\ fresult' = IF hit THEN FidOfJson(result.data) ELSE {}
                /\ fsource' = IF hit
                              THEN [kind |-> "cache", age |-> now - cached.timestamp,
                                    wrote |-> written[UsernameKey]]
                              ELSE [kind |-> "none"]
        /\ UNCHANGED <<rurl, failures, lastFailureTime, queueRest, notResolve>>

\* the awaited fetchWithTimeout has settled: a rejection leaves resolveFid
\* through its catch; a Response that is not ok leads to the fallback lookup
\* (or, from the fallback, to a throw); an ok Response is parsed, its fid
\* checked and cacheManager.set is called, which runs up to generateETag
ResolveContinue ==
    LET fid == rresult.fid
        newSize == SerializedLength(FidJson(CHOOSE n \in fid : TRUE))
        r == EvictLoop(cache, size, newSize, <<>>)
        gone == {r.evicted[i].key : i \in 1..Len(r.evicted)}
    IN  /\ fpc \in {"primary", "fallback"}
        /\ rpc \in {"returned", "thrown"}
        /\ IF rpc = "thrown"
           THEN /\ fpc' = "thrown"
                /\ UNCHANGED <<flookups, fpending, cache, size, written, retryVars>>
           ELSE IF ~rresult.ok
           THEN IF fpc = "primary"
                THEN /\ fpc' = "fallback"
                     /\ flookups' = Append(flookups, ProfileUrl)
                     /\ rpc' = "idle"
                     /\ UNCHANGED <<fpending, cache, size, written, rurl, retryCount,
                                    upstream, sleeps, answers, rresult>>
                ELSE /\ fpc' = "thrown"
                     /\ UNCHANGED <<flookups, fpending, cache, size, written,
                                    retryVars>>
           ELSE IF ~ValidFid(fid)
           THEN /\ fpc' = "thrown"
                /\ UNCHANGED <<flookups, fpending, cache, size, written, retryVars>>
           ELSE /\ fpc' = "caching"
                /\ cache' = r.cache
                /\ size' = r.size
                /\ written' = [k \in Keys |-> IF k \in gone THEN None ELSE written[k]]
                /\ fpending' = [key |-> UsernameKey,
                                data |-> FidJson(CHOOSE n \in fid : TRUE),
                                timestamp |-> now, size |-> newSize]
                /\ UNCHANGED <<flookups, retryVars>>
        /\ UNCHANGED <<fresult, fsource, fcalls, failures, lastFailureTime,
                       queueRest, notResolve>>

\* cacheManager.set after the await, then `return data.fid`
ResolveStored ==
    /\ fpc = "caching"
    /\ cache' = CachePut(cache, [key |-> fpending.key, data |-> fpending.data,
                                 timestamp |-> fpending.timestamp])
    /\ size' = size + fpending.size
    /\ written' = [written EXCEPT ![fpending.key] =
                      [data |-> fpending.data, timestamp |-> fpending.timestamp]]
    /\ fpending' = None
    /\ fpc' = "returned"
    /\ fresult' = rresult.fid
    /\ fsource' = [kind |-> "upstream"]
    /\ UNCHANGED <<flookups, fcalls, retryVars, failures, lastFailureTime,
                   queueRest, notResolve>>

NextResolve ==
    \/ \E username \in Usernames : ResolveCall(username)
    \/ \E e \in Endpoints : Awaited(e) /\ GateRefuse(e)
    \/ \E e \in Endpoints : Awaited(e) /\ GateStart(e)
    \/ \E a \in Answers : FetchSettles(a)
    \/ BackoffOver
    \/ ResolveContinue
    \/ ResolveStored
    \/ \E e \in Endpoints : Awaited(e) /\ PeerFails(e)
    \/ CacheTick

\* -------------------------------------------------------------------
\* Pagination of /v1/castsByFid: fetchCasts (the batch aggregator) and
\* the loop of the streaming handler.
\* -------------------------------------------------------------------

\* a message of the upstream: a top-level cast, a reply (castAddBody with a
\* parentCastId) or a message without castAddBody
Kinds == {"top", "reply", "other"}

\* what the upstream holds for the fid, in the requested direction
Feeds == UNION {[1..n -> Kinds] : n \in 0..MaxFeed}

\* `limit` of the query; 0 stands for a limit that is not given
Limits == 0..MaxLimit

Modes == {"batch", "stream"}

NoOptions == [mode |-> "batch", all |-> FALSE, limit |-> 0,
              includeReplies |-> FALSE]

\* targetLimit: fetchCasts reads params.limit as it is; the handler deletes
\* the limit of an all=true query before the streaming loop reads it
TargetLimit(o) ==
    IF o.mode = "stream" /\ o.all THEN 0 ELSE o.limit

\* PageSize without Math.min(100, ...) where replies are filtered
PageSizeUncapped(o) ==
    LET targetLimit == TargetLimit(o) IN
    IF o.includeReplies
    THEN (IF targetLimit # 0 THEN Min(100, targetLimit) ELSE 100)
    ELSE (IF targetLimit # 0 THEN Max(targetLimit * 2, 20) ELSE 100)

PageSize(o) ==
    LET targetLimit == TargetLimit(o) IN
    IF o.includeReplies
    THEN (IF targetLimit # 0 THEN Min(100, targetLimit) ELSE 100)
    ELSE (IF targetLimit # 0 THEN Min(100, Max(targetLimit * 2, 20)) ELSE 100)

\* a message the loops keep: it has a castAddBody and, unless replies are
\* included, no parent
Accepted(kind, includeReplies) ==
    /\ kind # "other"
    /\ includeReplies \/ kind # "reply"

\* the positions from..to of the feed that are accepted, in order
RECURSIVE AcceptedOf(_, _, _, _)
AcceptedOf(f, from, to, includeReplies) ==
    IF from > to THEN <<>>
    ELSE (IF Accepted(f[from], includeReplies) THEN <<from>> ELSE <<>>)
         \o AcceptedOf(f, from + 1, to, includeReplies)

\* the break after a page: the limit is reached or there is no next token
StopPagingOnTokenOnly(targetLimit, count, token) ==
    token = 0

StopPaging(targetLimit, count, token) ==
    (targetLimit # 0 /\ count >= targetLimit) \/ token = 0

\* the for loop of the streaming handler over the messages from..to of the
\* feed: castCount is incremented for an accepted message and the loop
\* breaks when it exceeds the limit, before the message is written
\* `if (targetLimit && castCount > targetLimit) break`, after castCount++
OverLimitByTwo(targetLimit, count) ==
    targetLimit # 0 /\ count > targetLimit + 1

OverLimit(targetLimit, count) ==
    targetLimit # 0 /\ count > targetLimit

RECURSIVE StreamLoop(_, _, _, _, _, _)
StreamLoop(f, from, to, o, count, out) ==
    IF from > to THEN [castCount |-> count, emitted |-> out, broke |-> FALSE]
    ELSE IF ~Accepted(f[from], o.includeReplies)
         THEN StreamLoop(f, from + 1, to, o, count, out)
         ELSE IF OverLimit(TargetLimit(o), count + 1)
              THEN [castCount |-> count + 1, emitted |-> out, broke |-> TRUE]
              ELSE StreamLoop(f, from + 1, to, o, count + 1,
                              Append(out, from))

InitPage ==
    /\ ppc = "idle"
    /\ popts = NoOptions
    /\ feed = <<>>
    /\ served = 0
    /\ pageToken = 0
    /\ casts = <<>>
    /\ castCount = 0
    /\ emitted = <<>>
    /\ requests = 0
    /\ exhausted = FALSE
    /\ reordered = FALSE

\* fetchCasts(fid, params) or the streaming loop is entered and asks for the
\* first page
PageCall(o, f) ==
    /\ ppc = "idle"
    /\ ppc' = "fetching"
    /\ popts' = o
    /\ feed' = f
    /\ requests' = 1
    /\ UNCHANGED <<served, pageToken, casts, castCount, emitted, exhausted,
                   reordered>>
    /\ UNCHANGED notPage

\* the positions from..to of the feed that have a castAddBody
RECURSIVE WithBody(_, _, _)
WithBody(f, from, to) ==
    IF from > to THEN <<>>
    ELSE (IF f[from] # "other" THEN <<from>> ELSE <<>>)
         \o WithBody(f, from + 1, to)

\* the orders in which n concurrent async callbacks may complete
Orders(n) == {p \in [1..n -> 1..n] : \A i, j \in 1..n : i # j => p[i] # p[j]}

\* the callbacks' results gathered as they complete
InCompletionOrder(results, order) ==
    [j \in 1..Len(order) |-> results[order[j]]]

\* Promise.all: the result of the callback of input i is stored at index i,
\* whenever it completes
PromiseAll(results, order) ==
    [i \in 1..Len(results) |->
        results[order[CHOOSE j \in 1..Len(order) : order[j] = i]]]

\* the upstream answers the request with the next k messages and with or
\* without a next-page token; fetchCasts maps the messages that have a
\* castAddBody to casts (null for a reply that is not wanted), the callbacks
\* complete in some order, the non-null results are pushed and the next
\* page is asked for or the loop ends
BatchPage(k, token, order) ==
    /\ ppc = "fetching"
    /\ popts.mode = "batch"
    /\ LET inputs == WithBody(feed, served + 1, served + k)
           results == [i \in 1..Len(inputs) |->
                          IF Accepted(feed[inputs[i]], popts.includeReplies)
                          THEN inputs[i] ELSE 0]
           processedCasts == PromiseAll(results, order)
           got == SelectSeq(processedCasts, LAMBDA c : c # 0)
           next == IF token THEN served + k ELSE 0
       IN  /\ casts' = casts \o got
           /\ reordered' = (reordered \/
                               \E i \in 1..Len(order) : order[i] # i)
           /\ pageToken' = next
           /\ exhausted' = (exhausted \/ ~token)
           /\ served' = served + k
           /\ IF StopPaging(TargetLimit(popts), Len(casts \o got), next)
              THEN /\ ppc' = "done"
                   /\ UNCHANGED requests
              ELSE /\ ppc' = "fetching"
                   /\ requests' = requests + 1
    /\ UNCHANGED <<popts, feed, castCount, emitted>>
    /\ UNCHANGED notPage

\* the same answer in the streaming loop; the client disconnects after the
\* loop has handled `cut` messages of the page (cut = k + 1: it stays)
StreamPage(k, token, cut) ==
    /\ ppc = "fetching"
    /\ popts.mode = "stream"
    /\ LET r == StreamLoop(feed, served + 1, served + Min(cut, k), popts,
                           castCount, emitted)
           next == IF token THEN served + k ELSE 0
       IN  /\ castCount' = r.castCount
           /\ emitted' = r.emitted
           /\ exhausted' = (exhausted \/ ~token)
           /\ served' = served + k
           /\ IF ~r.broke /\ cut < k
              THEN \* signal.aborted inside the for loop
                   /\ ppc' = "aborted"
                   /\ UNCHANGED <<pageToken, requests>>
              ELSE /\ pageToken' = next
                   /\ IF StopPaging(TargetLimit(popts), r.castCount, next)
                      THEN /\ ppc' = "done"
                           /\ UNCHANGED requests
                      ELSE IF cut = k
                           THEN \* signal.aborted before the next page
                                /\ ppc' = "aborted"
                                /\ UNCHANGED requests
                           ELSE /\ ppc' = "fetching"
                                /\ requests' = requests + 1
    /\ UNCHANGED <<popts, feed, casts, reordered>>
    /\ UNCHANGED notPage

\* fetchWithTimeout rejects: the exception leaves the loop
PageFails ==
    /\ ppc = "fetching"
    /\ ppc' = "thrown"
    /\ UNCHANGED <<popts, feed, served, pageToken, casts, castCount, emitted,
                   requests, exhausted, reordered>>
    /\ UNCHANGED notPage

\* the answers the upstream may give from the cursor: up to pageSize
\* messages, a token whenever messages remain after them
PageLens == {k \in 0..Min(PageSize(popts), Len(feed) - served) :
                 k > 0 \/ served = Len(feed)}

MayToken(k, token) ==
    /\ served + k < Len(feed) => token
    /\ k = 0 => ~token

NextPage ==
    \/ \E mode \in Modes, all \in BOOLEAN, limit \in Limits,
          includeReplies \in BOOLEAN, f \in Feeds :
           PageCall([mode |-> mode, all |-> all, limit |-> limit,
                     includeReplies |-> includeReplies], f)
    \/ \E k \in PageLens, token \in BOOLEAN :
           \E order \in Orders(Len(WithBody(feed, served + 1, served + k))) :
               MayToken(k, token) /\ BatchPage(k, token, order)
    \/ \E k \in PageLens, token \in BOOLEAN :
           \E cut \in 0..(k + 1) :
               MayToken(k, token) /\ StreamPage(k, token, cut)
    \/ PageFails

\* -------------------------------------------------------------------
\* The streaming handler: app.get('/') inside streamText, one action per
\* resumption after an await, with the client's cancellation signal.
\* Only the calls the handler makes itself are recorded.
\* -------------------------------------------------------------------

\* the messages of a stream's upstream are casts: top-level or replies
StreamKinds == {"top", "reply"}

StreamFeeds == UNION {[1..n -> StreamKinds] : n \in 0..MaxStreamFeed}

\* { likes, recasts } as fetchCastReactions returns it
ZeroReactions == [likes |-> 0, recasts |-> 0]
ReactionResults == {ZeroReactions, [likes |-> 1, recasts |-> 1]}

\* an output fragment written to the stream, or a call submitted upstream;
\* `late` tells whether signal.aborted was already true
Write(what, post, tally) ==
    [ev |-> "write", what |-> what, post |-> post, tally |-> tally,
     late |-> saborted]

Call(what, post) ==
    [ev |-> "call", what |-> what, post |-> post, tally |-> ZeroReactions,
     late |-> saborted]

\* an awaited call has thrown
Fail(what) ==
    [ev |-> "fail", what |-> what, post |-> 0, tally |-> ZeroReactions,
     late |-> saborted]

InitStream ==
    /\ spc = "idle"
    /\ typedQuery = [mode |-> "stream", all |-> FALSE, limit |-> 0,
             includeReplies |-> FALSE, includeReactions |-> FALSE,
             byName |-> FALSE]
    /\ sfeed = <<>>
    /\ sserved = 0
    /\ stoken = 0
    /\ scur = 0
    /\ scastCount = 0
    /\ sprocessed = 0
    /\ saborted = FALSE
    /\ slog = <<>>

\* the end of the do/while body and what follows it: the break on the limit
\* or the missing token, "No posts found.", or the check of signal.aborted
\* before the next page is requested
AfterPage(count) ==
    IF StopPaging(TargetLimit(typedQuery), count, stoken')
    THEN IF sprocessed = 0
         THEN [pc |-> "wLast", log |-> <<Write("No posts found.", 0, ZeroReactions)>>]
         ELSE [pc |-> "end", log |-> <<>>]
    ELSE IF saborted
         THEN [pc |-> "end", log |-> <<>>]
         ELSE [pc |-> "page", log |-> <<Call("page", 0)>>]

\* the for loop over the page from message `from` on, up to the next await:
\* the post block of the next accepted message is written, or the page ends
RECURSIVE ForLoop(_, _)
ForLoop(from, count) ==
    IF from > sserved'
    THEN AfterPage(count) @@ [cur |-> from, count |-> count]
    ELSE IF saborted THEN [pc |-> "end", log |-> <<>>, cur |-> from,
                           count |-> count]
    ELSE IF ~Accepted(sfeed[from], typedQuery.includeReplies)
         THEN ForLoop(from + 1, count)
    ELSE IF OverLimit(TargetLimit(typedQuery), count + 1)
         THEN AfterPage(count + 1) @@ [cur |-> from, count |-> count + 1]
    ELSE [pc |-> "wPost", log |-> <<Write("post", from, ZeroReactions)>>,
          cur |-> from, count |-> count + 1]

\* the streamText callback starts; the fid is given, or the handle is
\* announced before it is resolved
StreamStart(q, f) ==
    /\ spc = "idle"
    /\ typedQuery' = q
    /\ sfeed' = f
    /\ IF q.byName
       THEN /\ spc' = "wResolving"
            /\ slog' = Append(slog, Write("Resolving FID", 0, ZeroReactions))
       ELSE /\ spc' = "profile"
            /\ slog' = Append(slog, Call("profile", 0))
    /\ UNCHANGED <<sserved, stoken, scur, scastCount, sprocessed, saborted>>
    /\ UNCHANGED notStream

\* `fid = await resolveFid(sanitizedUsername)` is called
ResolveAsked ==
    /\ spc = "wResolving"
    /\ spc' = "resolveFid"
    /\ slog' = Append(slog, Call("resolveFid", 0))
    /\ UNCHANGED <<typedQuery, sfeed, sserved, stoken, scur, scastCount,
                   sprocessed, saborted>>
    /\ UNCHANGED notStream

\* resolveFid returns or throws
ResolveDone(ok) ==
    /\ spc = "resolveFid"
    /\ IF ok
       THEN /\ spc' = "wResolved"
            /\ slog' = Append(slog, Write("Resolved FID", 0, ZeroReactions))
       ELSE /\ spc' = "wLast"
            /\ slog' = slog \o <<Fail("resolveFid"),
                                 Write("Error", 0, ZeroReactions)>>
    /\ UNCHANGED <<typedQuery, sfeed, sserved, stoken, scur, scastCount,
                   sprocessed, saborted>>
    /\ UNCHANGED notStream

\* after "Resolved FID": the check of signal.aborted, then the profile fetch
ProfileAsked ==
    /\ spc = "wResolved"
    /\ IF saborted
       THEN /\ spc' = "end"
            /\ UNCHANGED slog
       ELSE /\ spc' = "profile"
            /\ slog' = Append(slog, Call("profile", 0))
    /\ UNCHANGED <<typedQuery, sfeed, sserved, stoken, scur, scastCount,
                   sprocessed, saborted>>
    /\ UNCHANGED notStream

\* the catch of the callback without its writeln
CaughtSilently(what) ==
    /\ spc' = "end"
    /\ slog' = Append(slog, Fail(what))

\* the catch of the callback: the error line unless the client is gone
Caught(what) ==
    IF saborted
    THEN /\ spc' = "end"
         /\ slog' = Append(slog, Fail(what))
    ELSE /\ spc' = "wLast"
         /\ slog' = slog \o <<Fail(what), Write("Error", 0, ZeroReactions)>>

\* fetchWithTimeout(userDataByFid) settles: it throws, or its body has a
\* messages array or not
ProfileDone(r) ==
    /\ spc = "profile"
    /\ CASE r = "throws" -> Caught("profile")
         [] saborted -> spc' = "end" /\ UNCHANGED slog
         [] r = "invalid" ->
              /\ spc' = "wLast"
              /\ slog' = Append(slog, Write("Error", 0, ZeroReactions))
         [] OTHER ->
              /\ spc' = "wProfile"
              /\ slog' = Append(slog, Write("profile", 0, ZeroReactions))
    /\ UNCHANGED <<typedQuery, sfeed, sserved, stoken, scur, scastCount,
                   sprocessed, saborted>>
    /\ UNCHANGED notStream

\* the profile block is written: the loop is entered and asks for a page
FirstPageAsked ==
    /\ spc = "wProfile"
    /\ IF saborted
       THEN /\ spc' = "end"
            /\ UNCHANGED slog
       ELSE /\ spc' = "page"
            /\ slog' = Append(slog, Call("page", 0))
    /\ UNCHANGED <<typedQuery, sfeed, sserved, stoken, scur, scastCount,
                   sprocessed, saborted>>
    /\ UNCHANGED notStream

\* the page request is answered with the next k messages
PageDone(k, token) ==
    /\ spc = "page"
    /\ sserved' = sserved + k
    /\ stoken' = IF token THEN sserved + k ELSE 0
    /\ LET r == ForLoop(sserved + 1, scastCount)
       IN  /\ spc' = r.pc
           /\ scur' = r.cur
           /\ scastCount' = r.count
           /\ slog' = slog \o r.log
    /\ UNCHANGED <<typedQuery, sfeed, sprocessed, saborted>>
    /\ UNCHANGED notStream

\* the page request throws
PageThrows ==
    /\ spc = "page"
    /\ Caught("page")
    /\ UNCHANGED <<typedQuery, sfeed, sserved, stoken, scur, scastCount,
                   sprocessed, saborted>>
    /\ UNCHANGED notStream

\* the guard of the reaction lookup without its check
MayEnrichAlways == TRUE

\* `if (!signal.aborted)` before fetchCastReactions
MayEnrich == ~saborted

\* the post block is written: fetchCastReactions if the client is still
\* there; else processedCount++ and the return on signal.aborted
ReactionsAsked ==
    /\ spc = "wPost"
    /\ IF ~MayEnrich
       THEN /\ spc' = "end"
            /\ sprocessed' = sprocessed + 1
            /\ UNCHANGED slog
       ELSE /\ spc' = "reactions"
            /\ slog' = Append(slog, Call("reactions", scur))
            /\ UNCHANGED sprocessed
    /\ UNCHANGED <<typedQuery, sfeed, sserved, stoken, scur, scastCount,
                   saborted>>
    /\ UNCHANGED notStream

\* fetchCastReactions returns: the reactions block is written
ReactionsDone(r) ==
    /\ spc = "reactions"
    /\ spc' = "wReactions"
    /\ slog' = Append(slog, Write("Reactions", scur, r))
    /\ UNCHANGED <<typedQuery, sfeed, sserved, stoken, scur, scastCount,
                   sprocessed, saborted>>
    /\ UNCHANGED notStream

\* processedCount++, the return on signal.aborted, sleep(50)
PostDone ==
    /\ spc = "wReactions"
    /\ sprocessed' = sprocessed + 1
    /\ spc' = IF saborted THEN "end" ELSE "sleep"
    /\ UNCHANGED <<typedQuery, sfeed, sserved, stoken, scur, scastCount,
                   saborted, slog>>
    /\ UNCHANGED notStream

\* sleep(50) is over: the for loop goes on with the next message
NextMessage ==
    /\ spc = "sleep"
    /\ UNCHANGED <<sserved, stoken>>
    /\ LET r == ForLoop(scur + 1, scastCount)
       IN  /\ spc' = r.pc
           /\ scur' = r.cur
           /\ scastCount' = r.count
           /\ slog' = slog \o r.log
    /\ UNCHANGED <<typedQuery, sfeed, sprocessed, saborted>>
    /\ UNCHANGED notStream

\* the last line is written: the callback returns
StreamEnd ==
    /\ spc = "wLast"
    /\ spc' = "end"
    /\ UNCHANGED <<typedQuery, sfeed, sserved, stoken, scur, scastCount,
                   sprocessed, saborted, slog>>
    /\ UNCHANGED notStream

\* the client disconnects: the abort listener runs controller.abort()
StreamAbort ==
    /\ spc \notin {"idle", "end"}
    /\ ~saborted
    /\ saborted' = TRUE
    /\ UNCHANGED <<spc, typedQuery, sfeed, sserved, stoken, scur, scastCount,
                   sprocessed, slog>>
    /\ UNCHANGED notStream

\* the answers the upstream may give: up to pageSize messages
StreamPageLens == {k \in 0..Min(PageSize(typedQuery), Len(sfeed) - sserved) :
                       k > 0 \/ sserved = Len(sfeed)}

StreamMayToken(k, token) ==
    /\ sserved + k < Len(sfeed) => token
    /\ k = 0 => ~token

NextStream ==
    \/ \E all \in BOOLEAN, limit \in Limits, includeReplies \in BOOLEAN,
          includeReactions \in BOOLEAN, byName \in BOOLEAN,
          f \in StreamFeeds :
           StreamStart([mode |-> "stream", all |-> all, limit |-> limit,
                        includeReplies |-> includeReplies,
                        includeReactions |-> includeReactions,
                        byName |-> byName], f)
    \/ ResolveAsked
    \/ \E ok \in BOOLEAN : ResolveDone(ok)
    \/ ProfileAsked
    \/ \E r \in {"ok", "invalid", "throws"} : ProfileDone(r)
    \/ FirstPageAsked
    \/ \E k \in StreamPageLens, token \in BOOLEAN :
           StreamMayToken(k, token) /\ PageDone(k, token)
    \/ PageThrows
    \/ ReactionsAsked
    \/ \E r \in ReactionResults : ReactionsDone(r)
    \/ PostDone
    \/ NextMessage
    \/ StreamEnd
    \/ StreamAbort

\* -------------------------------------------------------------------
\* fetchCastReactions: the cache, then reactionsBatchProcessor.add with
\* the two lookups of fetchFn and, once the batch window is over, the two
\* lookups of processSingleItem for the same item.
\* -------------------------------------------------------------------

\* the like and the recast lookup of fetchFn and of processSingleItem
FnLookups == {"fnLike", "fnRecast"}
PsLookups == {"psLike", "psRecast"}
Lookups == FnLookups \cup PsLookups

NotSent == [st |-> "none", n |-> 0]
Pending == [st |-> "pending", n |-> 0]
Failed == [st |-> "failed", n |-> 0]
\* a lookup answered with n reaction messages, n up to MaxReactions
Answered == {[st |-> "ok", n |-> n] : n \in 0..MaxReactions}

InitReact ==
    /\ crpc = "idle"
    /\ crlookups = [l \in Lookups |-> NotSent]
    /\ crtimer = "null"
    /\ crpromise = None
    /\ crvalue = ZeroReactions
    /\ crfailed = FALSE

\* the body of `new Promise` in add(): the item is queued, the timer armed,
\* fetchFn invoked
ReactPush ==
    /\ crtimer' = "armed"
    /\ crlookups' = [l \in Lookups |-> IF l \in FnLookups THEN Pending
                                       ELSE crlookups[l]]
    /\ crpc' = "awaitAdd"

\* fetchCastReactions(castHash, targetFid) is called: a fresh cache entry is
\* returned, else the item is added (a full queue only delays the push by
\* `await this.process()`, which does not throw)
ReactCall(cached) ==
    /\ crpc = "idle"
    /\ IF cached # None
       THEN /\ crpc' = "returned"
            /\ crvalue' = cached
            /\ UNCHANGED <<crlookups, crtimer>>
       ELSE /\ UNCHANGED crvalue
            /\ ReactPush
    /\ UNCHANGED <<crpromise, crfailed>>
    /\ UNCHANGED notReact

\* the batch window is over: process() calls processSingleItem for the item
ReactFlush ==
    /\ crtimer = "armed"
    /\ crtimer' = "fired"
    /\ crlookups' = [l \in Lookups |-> IF l \in PsLookups THEN Pending
                                       ELSE crlookups[l]]
    /\ UNCHANGED <<crpc, crpromise, crvalue, crfailed>>
    /\ UNCHANGED notReact

\* Promise.all of a pair of lookups: rejected by the first failure,
\* fulfilled when both are answered
PairOf(l) == IF l \in FnLookups THEN FnLookups ELSE PsLookups

PairSettles(ls, l) ==
    IF ls[l].st = "failed"
    THEN {[ok |-> FALSE, value |-> ZeroReactions]}
    ELSE IF \A m \in PairOf(l) : ls[m].st = "ok"
         THEN {[ok |-> TRUE,
                value |-> IF l \in FnLookups
                          THEN [likes |-> ls["fnLike"].n,
                                recasts |-> ls["fnRecast"].n]
                          ELSE [likes |-> ls["psLike"].n,
                                recasts |-> ls["psRecast"].n]]}
         ELSE {}

\* `return await reactionsBatchProcessor.add(...)` without the try/catch
AfterAddUncaught(p) ==
    [pc |-> IF p.ok THEN "returned" ELSE "thrown", value |-> p.value]

\* `try { return await reactionsBatchProcessor.add(...) } catch { return
\* defaultReactions }`
AfterAdd(p) ==
    [pc |-> "returned", value |-> IF p.ok THEN p.value ELSE ZeroReactions]

\* a lookup is answered or fails (an error status, a timeout, a refusal by
\* the circuit breaker): its pair may settle, and the first settlement
\* settles the promise add() returned
LookupSettles(l, r) ==
    /\ crlookups[l] = Pending
    /\ LET ls == [crlookups EXCEPT ![l] = r]
           settled == PairSettles(ls, l)
       IN  /\ crlookups' = ls
           /\ IF crpromise = None /\ settled # {}
              THEN LET p == CHOOSE s \in settled : TRUE IN
                   /\ crpromise' = p
                   /\ crpc' = AfterAdd(p).pc
                   /\ crvalue' = AfterAdd(p).value
                   /\ crfailed' = \E m \in Lookups : ls[m].st = "failed"
              ELSE UNCHANGED <<crpromise, crpc, crvalue, crfailed>>
    /\ UNCHANGED crtimer
    /\ UNCHANGED notReact

NextReact ==
    \/ \E cached \in ReactionResults \cup {None} : ReactCall(cached)
    \/ ReactFlush
    \/ \E l \in Lookups, r \in Answered \cup {Failed} : LookupSettles(l, r)

\* -------------------------------------------------------------------
\* fetchParentCasts and the merge at the end of fetchCasts.
\* -------------------------------------------------------------------

\* parent hashes; 0 stands for a cast without parentHash
ParentHashes == 1..MaxParents

\* the parentHash of each accepted cast, in the order of `casts`
ParentRefs == UNION {[1..n -> 0..MaxParents] : n \in 1..MaxCasts}

\* Array.from(parentCastIds): the distinct hashes in insertion order
RECURSIVE DistinctRefs(_, _)
DistinctRefs(refs, seen) ==
    IF refs = <<>> THEN <<>>
    ELSE IF Head(refs) = 0 \/ Head(refs) \in seen
         THEN DistinctRefs(Tail(refs), seen)
         ELSE <<Head(refs)>> \o DistinctRefs(Tail(refs), seen \cup {Head(refs)})

\* chunk(array, size)
RECURSIVE Chunk(_, _)
Chunk(array, n) ==
    IF array = <<>> THEN <<>>
    ELSE <<SubSeq(array, 1, Min(n, Len(array)))>>
         \o Chunk(SubSeq(array, Min(n, Len(array)) + 1, Len(array)), n)

\* what a castById lookup ends with: a cast, a response without a cast, or
\* an exception of fetchWithTimeout
ParentOutcomes == {"cast", "nothing", "throws"}

InitParents ==
    /\ papc = "idle"
    /\ parefs = <<>>
    /\ pabatches = <<>>
    /\ palookups = [h \in ParentHashes |-> "none"]
    /\ pasent = [h \in ParentHashes |-> 0]
    /\ parentCasts = {}
    /\ paattached = <<>>

\* the lookups of a batch are started together
SendBatch(batch) ==
    /\ palookups' = [h \in ParentHashes |->
                        IF h \in SeqToSet(batch) THEN "pending"
                        ELSE palookups[h]]
    /\ pasent' = [h \in ParentHashes |->
                     pasent[h] + Cardinality({i \in 1..Len(batch) :
                                                  batch[i] = h})]

\* the merge of fetchCasts: a cast gets the parent found for its parentHash
Attach(refs, found) ==
    [i \in 1..Len(refs) |-> IF refs[i] # 0 /\ refs[i] \in found
                            THEN refs[i] ELSE 0]

\* fetchCasts after its pagination loop, with includeParents: no parent to
\* fetch, or fetchParentCasts starts its first batch
ParentsCall(refs) ==
    /\ papc = "idle"
    /\ parefs' = refs
    /\ LET batches == Chunk(DistinctRefs(refs, {}), PARENTS_BATCH_SIZE) IN
       IF batches = <<>>
       THEN /\ papc' = "done"
            /\ paattached' = [i \in 1..Len(refs) |-> 0]
            /\ UNCHANGED <<pabatches, palookups, pasent>>
       ELSE /\ papc' = "batch"
            /\ pabatches' = batches
            /\ SendBatch(Head(batches))
            /\ UNCHANGED paattached
    /\ UNCHANGED parentCasts
    /\ UNCHANGED notParents

\* a castById lookup ends; its try/catch turns a failure into null
ParentSettles(h, r) ==
    /\ papc = "batch"
    /\ palookups[h] = "pending"
    /\ palookups' = [palookups EXCEPT ![h] = r]
    /\ UNCHANGED <<papc, parefs, pabatches, pasent, parentCasts, paattached>>
    /\ UNCHANGED notParents

\* the hashes of a batch that enter parentCasts if one failure emptied the
\* batch
ResolvedAllOrNothing(batch) ==
    IF \E h \in SeqToSet(batch) : palookups[h] = "throws" THEN {}
    ELSE {h \in SeqToSet(batch) : palookups[h] = "cast"}

\* the hashes of a batch that enter parentCasts: the non-null results
Resolved(batch) ==
    {h \in SeqToSet(batch) : palookups[h] = "cast"}

\* Promise.all of the batch is settled: the results are stored, sleep(100)
ParentsBatchOver ==
    /\ papc = "batch"
    /\ \A h \in SeqToSet(Head(pabatches)) : palookups[h] # "pending"
    /\ parentCasts' = parentCasts \cup Resolved(Head(pabatches))
    /\ papc' = "sleep"
    /\ UNCHANGED <<parefs, pabatches, palookups, pasent, paattached>>
    /\ UNCHANGED notParents

\* sleep(100) is over: the next batch, or the return and the merge
ParentsSleepOver ==
    /\ papc = "sleep"
    /\ pabatches' = Tail(pabatches)
    /\ IF Tail(pabatches) = <<>>
       THEN /\ papc' = "done"
            /\ paattached' = Attach(parefs, parentCasts)
            /\ UNCHANGED <<palookups, pasent>>
       ELSE /\ papc' = "batch"
            /\ SendBatch(Head(Tail(pabatches)))
            /\ UNCHANGED paattached
    /\ UNCHANGED <<parefs, parentCasts>>
    /\ UNCHANGED notParents

NextParents ==
    \/ \E refs \in ParentRefs : ParentsCall(refs)
    \/ \E h \in ParentHashes, r \in ParentOutcomes : ParentSettles(h, r)
    \/ ParentsBatchOver
    \/ ParentsSleepOver

\* -------------------------------------------------------------------
\* fetchUserData (batch aggregation) and processUserData.
\* -------------------------------------------------------------------

\* the fids a caller may pass
FidArgs == (0 - 1)..MaxFid

\* userDataBody.type as the upstream writes it: a name, or a number
\* (written here as the string of its digits). "4" is a type the switch
\* has no case for.
UserDataTypes ==
    {"1", "2", "3", "4", "5", "6", "7", "8", "9",
     "USER_DATA_TYPE_USERNAME", "USER_DATA_TYPE_BIO"}

UserDataValues == {"", "x"}

\* a message of a userDataByFid response, with a userDataBody or without
UserDataMessage ==
    {[body |-> FALSE, type |-> "", value |-> ""]}
        \cup [body : {TRUE}, type : UserDataTypes, value : UserDataValues]

\* the messages of a userDataByFid response
UserDataMessages == UNION {[1..n -> UserDataMessage] : n \in 0..MaxUserData}

EmptyUser ==
    [fid |-> 0, username |-> "", displayName |-> "", bio |-> "", pfp |-> "",
     url |-> "", location |-> "", twitter |-> "", github |-> ""]

\* the cases of `switch (type)`: the field a type is stored in
FieldOf(type) ==
    CASE type \in {"USER_DATA_TYPE_PFP", "1"} -> "pfp"
      [] type \in {"USER_DATA_TYPE_DISPLAY", "2"} -> "displayName"
      [] type \in {"USER_DATA_TYPE_BIO", "3"} -> "bio"
      [] type \in {"USER_DATA_TYPE_URL", "5"} -> "url"
      [] type \in {"USER_DATA_TYPE_USERNAME", "6"} -> "username"
      [] type \in {"USER_DATA_TYPE_LOCATION", "7"} -> "location"
      [] type \in {"USER_DATA_TYPE_TWITTER", "8"} -> "twitter"
      [] type \in {"USER_DATA_TYPE_GITHUB", "9"} -> "github"
      [] OTHER -> "none"

\* the forEach over the messages with the first record of a field kept
RECURSIVE MergeFirstWins(_, _)
MergeFirstWins(user, messages) ==
    IF messages = <<>> THEN user
    ELSE LET message == Head(messages)
             field == FieldOf(message.type)
         IN  MergeFirstWins(
                 IF message.body /\ field # "none" /\ user[field] = ""
                 THEN [user EXCEPT ![field] = message.value] ELSE user,
                 Tail(messages))

\* messages.forEach((message) => { if (!message.data?.userDataBody) return;
\* switch (type) { ... user.<field> = value } })
RECURSIVE MergeUserData(_, _)
MergeUserData(user, messages) ==
    IF messages = <<>> THEN user
    ELSE LET message == Head(messages)
             field == FieldOf(message.type)
         IN  MergeUserData(
                 IF message.body /\ field # "none"
                 THEN [user EXCEPT ![field] = message.value] ELSE user,
                 Tail(messages))

\* processUserData(data): the user starts with fid 0 and the switch sets
\* the other fields only
ProcessUserData(messages) == MergeUserData(EmptyUser, messages)

InitProfile ==
    /\ udpc = "idle"
    /\ udarg = [byName |-> FALSE, fid |-> 0]
    /\ udfid = 0
    /\ uduser = EmptyUser

\* fetchUserData(fid, params)
ProfileByFid(n) ==
    /\ udpc = "idle"
    /\ udarg' = [byName |-> FALSE, fid |-> n]
    /\ IF n <= 0
       THEN /\ udpc' = "thrown"
            /\ UNCHANGED udfid
       ELSE /\ udpc' = "userData"
            /\ udfid' = n
    /\ UNCHANGED uduser
    /\ UNCHANGED notProfile

\* fetchUserData(username, params): the fid comes from the cache or from
\* resolveFid (a positive fid, see ReturnsPositiveFid), or resolveFid throws
ProfileByName(resolved) ==
    /\ udpc = "idle"
    /\ udarg' = [byName |-> TRUE, fid |-> resolved]
    /\ IF resolved = 0
       THEN /\ udpc' = "thrown"
            /\ UNCHANGED udfid
       ELSE /\ udpc' = "userData"
            /\ udfid' = resolved
    /\ UNCHANGED uduser
    /\ UNCHANGED notProfile

\* userDataBatchProcessor.add settles: with processUserData(data) of the
\* producer or of processSingleItem, or with an error
UserDataSettles(ok, messages) ==
    /\ udpc = "userData"
    /\ IF ok
       THEN /\ udpc' = "casts"
            /\ uduser' = ProcessUserData(messages)
       ELSE /\ udpc' = "thrown"
            /\ UNCHANGED uduser
    /\ UNCHANGED <<udarg, udfid>>
    /\ UNCHANGED notProfile

\* fetchCasts(fid, params) returns or throws: `return { user, casts }`
ProfileCastsSettle(ok) ==
    /\ udpc = "casts"
    /\ udpc' = IF ok THEN "returned" ELSE "thrown"
    /\ UNCHANGED <<udarg, udfid, uduser>>
    /\ UNCHANGED notProfile

NextProfile ==
    \/ \E n \in FidArgs : ProfileByFid(n)
    \/ \E resolved \in 0..MaxFid : ProfileByName(resolved)
    \/ \E ok \in BOOLEAN, messages \in UserDataMessages :
           UserDataSettles(ok, messages)
    \/ \E ok \in BOOLEAN : ProfileCastsSettle(ok)

\* -------------------------------------------------------------------
\* fetchUserData of the server (text API): pagination and final slice.
\* The numbers of the source are scaled down: DEFAULT_LIMIT stands for
\* 10, MIN_PAGE_SIZE for 20 and LIMIT_CAP for 1000.
\* -------------------------------------------------------------------

TextFeeds == UNION {[1..n -> Kinds] : n \in 0..MaxTextFeed}

\* params.limit; 0 stands for a limit that is not given
TextLimits == 0..MaxTextLimit

\* targetLimit = params.all === true ? 1000 : params.limit || 10
TextTargetLimit(o) ==
    IF o.all THEN LIMIT_CAP
    ELSE IF o.limit # 0 THEN o.limit ELSE DEFAULT_LIMIT

TextPageSize(o) ==
    IF o.all THEN LIMIT_CAP
    ELSE IF o.includeReplies THEN TextTargetLimit(o)
    ELSE Min(LIMIT_CAP, Max(TextTargetLimit(o) * 2, MIN_PAGE_SIZE))

\* the positions from..to of the feed that have a castAddBody (replies
\* kept or not), in order
RECURSIVE TextPushed(_, _, _, _)
TextPushed(f, from, to, withReplies) ==
    IF from > to THEN <<>>
    ELSE (IF f[from] = "top" \/ (withReplies /\ f[from] = "reply")
          THEN <<from>> ELSE <<>>)
         \o TextPushed(f, from + 1, to, withReplies)

\* Array.prototype.slice(0, n)
Slice(s, n) == SubSeq(s, 1, Min(n, Len(s)))

\* the statements after the loop: finalCasts and the limit
TextFinal(o, all, nonReply) ==
    LET finalCasts == IF o.includeReplies THEN all ELSE nonReply IN
    IF ~o.all /\ o.limit # 0
    THEN Slice(finalCasts, Max(1, Min(o.limit, LIMIT_CAP)))
    ELSE finalCasts

InitText ==
    /\ tpc = "idle"
    /\ topts = [all |-> FALSE, limit |-> 0, includeReplies |-> FALSE]
    /\ tfeed = <<>>
    /\ tserved = 0
    /\ allCasts = <<>>
    /\ nonReplyCasts = <<>>
    /\ tcasts = <<>>

\* fetchUserData(fid, params) up to the await of the user data request
TextCall(o, f) ==
    /\ tpc = "idle"
    /\ tpc' = "user"
    /\ topts' = o
    /\ tfeed' = f
    /\ UNCHANGED <<tserved, allCasts, nonReplyCasts, tcasts>>
    /\ UNCHANGED notText

\* the user data request settles; on success the first page is requested
TextUserDone(ok) ==
    /\ tpc = "user"
    /\ tpc' = IF ok THEN "page" ELSE "thrown"
    /\ UNCHANGED <<topts, tfeed, tserved, allCasts, nonReplyCasts, tcasts>>
    /\ UNCHANGED notText

\* a page of k messages arrives, with a nextPageToken or not: the for
\* loop, the break conditions, and either the next request or the return
TextPage(k, token) ==
    /\ tpc = "page"
    /\ LET all == allCasts \o TextPushed(tfeed, tserved + 1, tserved + k, TRUE)
           nonReply == IF topts.includeReplies THEN nonReplyCasts
                       ELSE nonReplyCasts \o
                            TextPushed(tfeed, tserved + 1, tserved + k, FALSE)
           targetLimit == TextTargetLimit(topts)
           break == /\ ~topts.all
                    /\ IF topts.includeReplies
                       THEN Len(all) >= targetLimit
                       ELSE Len(nonReply) >= targetLimit
       IN  /\ allCasts' = all
           /\ nonReplyCasts' = nonReply
           /\ tserved' = tserved + k
           /\ IF break \/ ~token
              THEN /\ tpc' = "returned"
                   /\ tcasts' = TextFinal(topts, all, nonReply)
              ELSE /\ tpc' = "page"
                   /\ UNCHANGED tcasts
    /\ UNCHANGED <<topts, tfeed>>
    /\ UNCHANGED notText

\* a page request throws (fetchWithTimeout, or a response that is not ok)
TextPageThrows ==
    /\ tpc = "page"
    /\ tpc' = "thrown"
    /\ UNCHANGED <<topts, tfeed, tserved, allCasts, nonReplyCasts, tcasts>>
    /\ UNCHANGED notText

\* what the upstream may answer to a request of pageSize messages
TextPageLens == {k \in 0..Min(TextPageSize(topts), Len(tfeed) - tserved) :
                     k > 0 \/ tserved = Len(tfeed)}

TextMayToken(k, token) ==
    /\ tserved + k < Len(tfeed) => token
    /\ k = 0 => ~token

NextText ==
    \/ \E all \in BOOLEAN, limit \in TextLimits, includeReplies \in BOOLEAN,
          f \in TextFeeds :
           TextCall([all |-> all, limit |-> limit,
                     includeReplies |-> includeReplies], f)
    \/ \E ok \in BOOLEAN : TextUserDone(ok)
    \/ \E k \in TextPageLens, token \in BOOLEAN :
           TextMayToken(k, token) /\ TextPage(k, token)
    \/ TextPageThrows

\* -------------------------------------------------------------------
\* RequestQueue: response-time window and adaptive delay, on their own.
\* The success path of the closure of add() records a response time and
\* calls adjustDelay(); here it is run for response times closer to one
\* another than the samples of the queue clock.
\* -------------------------------------------------------------------

\* Date.now() - startTime, in ms
SampleTimes == {0, 100}

InitDelay ==
    /\ adWindow = <<>>
    /\ adDelay = REQUEST_QUEUE_DELAY * 1000
    /\ adSampled = 0

\* responseTimes.push(responseTime); shift() past 10; adjustDelay()
DelaySample(responseTime) ==
    LET rt == PushResponseTime(adWindow, responseTime)
    IN  /\ adSampled < MaxSamples
        /\ adWindow' = rt
        /\ adDelay' = AdjustDelay(rt, adDelay)
        /\ adSampled' = adSampled + 1
        /\ UNCHANGED notDelay

NextDelay ==
    \E responseTime \in SampleTimes : DelaySample(responseTime)

\* -------------------------------------------------------------------
\* The page size computed at the three places that page through
\* castsByFid, for limits up to and beyond the largest page.
\* -------------------------------------------------------------------

Sites == {"batch", "stream", "text"}

\* the limits a query may carry at a site (0: none); the text API is
\* modelled with scaled numbers
LimitsAt(site) == IF site = "text" THEN TextLimits ELSE 0..MaxAskedLimit

\* the pageSize of the site for the options o
PageSizeAt(site, o) ==
    IF site = "text" THEN TextPageSize(o)
    ELSE PageSize([mode |-> site, all |-> o.all, limit |-> o.limit,
                   includeReplies |-> o.includeReplies])

InitSize ==
    asked = [site |-> "none", all |-> FALSE, limit |-> 0,
             includeReplies |-> FALSE, pageSize |-> 0]

\* the set-up of a pagination: targetLimit, includeReplies, pageSize
PageSizeCall(site, o) ==
    /\ asked.site = "none"
    /\ asked' = [site |-> site, all |-> o.all, limit |-> o.limit,
                 includeReplies |-> o.includeReplies,
                 pageSize |-> PageSizeAt(site, o)]
    /\ UNCHANGED notSize

NextSize ==
    /\ asked.site = "none"
    /\ \E site \in Sites, all \in BOOLEAN, includeReplies \in BOOLEAN :
           \E limit \in LimitsAt(site) :
               PageSizeCall(site, [all |-> all, limit |-> limit,
                                   includeReplies |-> includeReplies])

\* -------------------------------------------------------------------
\* The three profile merges, applied to a userDataByFid response:
\* processUserData, the merge of the stream handler and the merge of the
\* server's fetchUserData.
\* -------------------------------------------------------------------

MergeSites == {"batch", "stream", "text"}

\* typedQuery.username, or a fidOrUsername that is a string ("": the query
\* is by fid)
Handles == {"", "alice"}

\* the username given to a user that has none
Fallback(handle, fidArg) ==
    IF handle # "" THEN handle ELSE "user_" \o ToString(fidArg)

\* the merge of the stream handler and of the server: the user starts with
\* the fid and the handle, and an empty username is replaced at the end
InlineMerge(fidArg, handle, messages) ==
    LET user == MergeUserData([EmptyUser EXCEPT !.fid = fidArg,
                                                !.username = handle],
                              messages)
    IN  IF user.username = ""
        THEN [user EXCEPT !.username = Fallback(handle, fidArg)]
        ELSE user

MergeAt(site, fidArg, handle, messages) ==
    IF site = "batch" THEN ProcessUserData(messages)
    ELSE InlineMerge(fidArg, handle, messages)

InitMerge ==
    merged = [site |-> "none", fid |-> 0, handle |-> "", messages |-> <<>>,
              user |-> EmptyUser]

\* a userDataByFid response is merged at a site; processUserData sees
\* neither the fid nor the handle
MergeCall(site, handle, messages) ==
    /\ merged.site = "none"
    /\ site = "batch" => handle = ""
    /\ merged' = [site |-> site, fid |-> 1, handle |-> handle,
                  messages |-> messages,
                  user |-> MergeAt(site, 1, handle, messages)]
    /\ UNCHANGED notMerge

NextMerge ==
    /\ merged.site = "none"
    /\ \E site \in MergeSites, handle \in Handles,
          messages \in UserDataMessages :
           MergeCall(site, handle, messages)
\* -------------------------------------------------------------------
\* fetchWithCache: one url, calls made one after the other, each after the
\* background revalidation of the call before it is over
\* -------------------------------------------------------------------
\* `const cacheKey = url`
FetchKey == 2
\* what fetchWithTimeout(url, options) settles with: a Response that is ok
\* and its body, a Response that is not ok, or a rejection
FetchAnswers ==
    [kind : {"ok"}, data : Data]
        \cup {[kind |-> "notOk", data |-> ""], [kind |-> "throws", data |-> ""]}

NoAnswer == [kind |-> "none", data |-> ""]

InitFetch ==
    fwc = [pc |-> "idle", ret |-> "", refresh |-> "none", before |-> None,
           got |-> NoAnswer, gotAt |-> 0, calls |-> 0]

\* CacheManager.set(key, data, ttl) up to `await this.generateETag(data)`
SetUpToETag(key, data) ==
    LET newSize == SerializedLength(data)
        r == EvictLoop(cache, size, newSize, <<>>)
        gone == {r.evicted[i].key : i \in 1..Len(r.evicted)}
    IN  [cache |-> r.cache,
         size |-> r.size,
         written |-> [k \in Keys |-> IF k \in gone THEN None ELSE written[k]],
         pending |-> [key |-> key, data |-> data, timestamp |-> now,
                      size |-> newSize]]

\* CacheManager.set after the await
SetAfterETag(p) ==
    [cache |-> CachePut(cache, [key |-> p.key, data |-> p.data,
                                timestamp |-> p.timestamp]),
     size |-> size + p.size,
     written |-> [written EXCEPT ![p.key] =
                     [data |-> p.data, timestamp |-> p.timestamp]]]

\* Revalidates without the test of response.ok
RevalidatesAnyResponse(a) == a.kind # "throws"

\* the background revalidation stores the body of an ok Response only
Revalidates(a) == a.kind = "ok"

\* fetchWithCache(url) up to its return or its awaited fetchWithTimeout:
\* cacheManager.get(cacheKey, ttl); a fresh entry is returned; a stale one
\* is returned after the revalidation was started; without an entry the
\* upstream call is awaited
FetchWithCache ==
    LET cached == CacheLookup(cache, FetchKey)
        result == IF cached = None THEN None
                  ELSE GetResult(cached, DEFAULT_TTL, now)
        expired == cached # None /\ result = None
    IN  /\ fwc.pc \in {"idle", "returned", "thrown"}
        /\ fwc.refresh \in {"none", "over"}
        /\ fwc.calls < MaxFetches
        /\ cache' = IF expired THEN CacheDelete(cache, FetchKey) ELSE cache
        /\ size' = IF expired THEN size - SerializedLength(cached.data) ELSE size
        /\ written' = IF expired THEN [written EXCEPT ![FetchKey] = None]
                      ELSE written
        /\ fwc' = IF result = None
                  THEN [pc |-> "fetching", ret |-> "", refresh |-> "none",
                        before |-> None, got |-> NoAnswer, gotAt |-> 0,
                        calls |-> fwc.calls + 1]
                  ELSE [pc |-> "returned", ret |-> result.data,
                        refresh |-> IF result.stale THEN "fetching" ELSE "none",
                        before |-> IF result.stale THEN cached ELSE None,
                        got |-> NoAnswer, gotAt |-> 0,
                        calls |-> fwc.calls + 1]
        /\ UNCHANGED <<now, cacheRest, notFetchNorCache>>

\* the awaited fetchWithTimeout settles: a rejection or a Response that is
\* not ok makes fetchWithCache throw; the body of an ok Response goes to
\* cacheManager.set, which runs up to generateETag
UpstreamSettles(a) ==
    LET s == SetUpToETag(FetchKey, a.data)
    IN  /\ fwc.pc = "fetching"
        /\ IF a.kind = "ok"
           THEN /\ cache' = s.cache
                /\ size' = s.size
                /\ written' = s.written
                /\ pendingSets' = [pendingSets EXCEPT !["fetchWithCache"] = s.pending]
                /\ fwc' = [fwc EXCEPT !.pc = "caching"]
           ELSE /\ fwc' = [fwc EXCEPT !.pc = "thrown"]
                /\ UNCHANGED <<cache, size, written, pendingSets>>
        /\ UNCHANGED <<now, lastGet, lastEvict, notFetchNorCache>>

\* cacheManager.set after the await, then `return data`
FetchStored ==
    LET p == pendingSets["fetchWithCache"]
        s == SetAfterETag(p)
    IN  /\ fwc.pc = "caching"
        /\ cache' = s.cache
        /\ size' = s.size
        /\ written' = s.written
        /\ pendingSets' = [pendingSets EXCEPT !["fetchWithCache"] = None]
        /\ fwc' = [fwc EXCEPT !.pc = "returned", !.ret = p.data]
        /\ UNCHANGED <<now, lastGet, lastEvict, notFetchNorCache>>

\* the fetchWithTimeout of the revalidation settles: `.then` stores the body
\* of an ok Response, `.catch(() => {})` swallows a rejection
RefreshSettles(a) ==
    LET s == SetUpToETag(FetchKey, a.data)
    IN  /\ fwc.refresh = "fetching"
        /\ IF a.kind # "throws" /\ Revalidates(a)
           THEN /\ cache' = s.cache
                /\ size' = s.size
                /\ written' = s.written
                /\ pendingSets' = [pendingSets EXCEPT !["fetchWithCache"] = s.pending]
                /\ fwc' = [fwc EXCEPT !.refresh = "caching", !.got = a,
                                      !.gotAt = now]
           ELSE /\ fwc' = [fwc EXCEPT !.refresh = "over", !.got = a,
                                      !.gotAt = now]
                /\ UNCHANGED <<cache, size, written, pendingSets>>
        /\ UNCHANGED <<now, lastGet, lastEvict, notFetchNorCache>>

\* cacheManager.set of the revalidation after the await
RefreshStored ==
    LET p == pendingSets["fetchWithCache"]
        s == SetAfterETag(p)
    IN  /\ fwc.refresh = "caching"
        /\ cache' = s.cache
        /\ size' = s.size
        /\ written' = s.written
        /\ pendingSets' = [pendingSets EXCEPT !["fetchWithCache"] = None]
        /\ fwc' = [fwc EXCEPT !.refresh = "over"]
        /\ UNCHANGED <<now, lastGet, lastEvict, notFetchNorCache>>

NextFetch ==
    \/ FetchWithCache
    \/ \E a \in FetchAnswers : UpstreamSettles(a)
    \/ FetchStored
    \/ \E a \in FetchAnswers : RefreshSettles(a)
    \/ RefreshStored
    \/ CacheTick


Init ==
    /\ now = 0
    /\ cache = <<>>
    /\ size = 0
    /\ pendingSets = [f \in SetCallers |-> None]
    /\ written = [k \in Keys |-> None]
    /\ lastGet = None
    /\ lastEvict = None
    /\ InitBatch
    /\ InitQueue
    /\ InitRetry
    /\ InitResolve
    /\ InitPage
    /\ InitStream
    /\ InitReact
    /\ InitParents
    /\ InitProfile
    /\ InitText
    /\ InitDelay
    /\ InitSize
    /\ InitMerge
    /\ InitFetch

NextCache ==
    \/ \E key \in Keys, ttl \in TTLs : CacheGet(key, ttl)
    \/ \E caller \in SetCallers, key \in KeysToSet, data \in Data :
           CacheSetEvict(caller, key, data)
    \/ \E caller \in SetCallers : CacheSetInsert(caller)
    \/ CacheYield
    \/ CacheTick

SpecCache == Init /\ [][NextCache]_vars

SpecBatch == Init /\ [][NextBatch]_vars

SpecQueue == Init /\ [][NextQueue]_vars

\* The queue under fairness, within one sample of the clock: LiveTasks
\* operations for one endpoint, enough for the circuit to open and refuse
\* one. Every timer set by sleep() runs out, and every operation that was
\* invoked settles.
NextQueueLive ==
    \/ \E t \in 1..LiveTasks : QueueAdd(t, FirstEndpoint)
    \/ \E t \in TaskIds : QueueRefuse(t)
    \/ \E t \in TaskIds : QueueStart(t)
    \/ \E t \in TaskIds : QueueResolve(t)
    \/ \E t \in TaskIds : QueueReject(t)
QueueTimerFires == \E t \in TaskIds : QueueRefuse(t) \/ QueueStart(t)
QueueFnSettles == \E t \in TaskIds : QueueResolve(t) \/ QueueReject(t)
SpecQueueFair ==
    /\ Init
    /\ [][NextQueueLive]_vars
    /\ WF_vars(QueueTimerFires)
    /\ WF_vars(QueueFnSettles)

SpecRetry == Init /\ [][NextRetry]_vars

SpecResolve == Init /\ [][NextResolve]_vars

SpecPage == Init /\ [][NextPage]_vars

SpecStream == Init /\ [][NextStream]_vars

SpecReact == Init /\ [][NextReact]_vars

SpecParents == Init /\ [][NextParents]_vars

SpecProfile == Init /\ [][NextProfile]_vars

SpecText == Init /\ [][NextText]_vars

SpecDelay == Init /\ [][NextDelay]_vars

SpecSize == Init /\ [][NextSize]_vars

SpecMerge == Init /\ [][NextMerge]_vars

SpecFetch == Init /\ [][NextFetch]_vars

\* -------------------------------------------------------------------
\* C1: a get(key, ttl) of a key whose last set stored v at insertion
\* timestamp t (and is still resident) returns v with stale = FALSE while
\* age <= ttl, v with stale = TRUE while ttl < age <= ttl +
\* STALE_WHILE_REVALIDATE, and null once age > ttl + STALE_WHILE_REVALIDATE,
\* where age = now - t.
GetAfterSetByAge ==
    (lastGet # None /\ lastGet.wrote # None) =>
        LET age == now - lastGet.wrote.timestamp
            v == lastGet.wrote.data
            ttl == lastGet.ttl
        IN  /\ age <= ttl =>
                 lastGet.result = [data |-> v, stale |-> FALSE]
            /\ (ttl < age /\ age <= ttl + STALE_WHILE_REVALIDATE) =>
                 lastGet.result = [data |-> v, stale |-> TRUE]
            /\ age > ttl + STALE_WHILE_REVALIDATE =>
                 lastGet.result = None

\* a get that found a stale entry exactly at age = ttl + STALE_WHILE_REVALIDATE
GetServedStaleAtWindowEnd ==
    /\ lastGet # None
    /\ lastGet.wrote # None
    /\ now - lastGet.wrote.timestamp = lastGet.ttl + STALE_WHILE_REVALIDATE
    /\ lastGet.result # None
    /\ lastGet.result.stale

\* reachability of the other two cases of C1
GetServedFreshAtTtl ==
    /\ lastGet # None
    /\ lastGet.wrote # None
    /\ now - lastGet.wrote.timestamp = lastGet.ttl
    /\ lastGet.result # None
    /\ ~lastGet.result.stale

GetFoundExpired ==
    /\ lastGet # None
    /\ lastGet.wrote # None
    /\ lastGet.result = None

\* -------------------------------------------------------------------
\* C2: in the eviction loop of set, every evicted entry has the least
\* insertion timestamp among the entries present at that moment, and the
\* loop ends only when both ceilings leave room for the new entry (counter +
\* new size <= MAX_CACHE_SIZE and fewer than MAX_CACHE_ITEMS entries) or the
\* cache is empty.
EvictsOldestUntilCeilingsHold ==
    lastEvict # None =>
        /\ \A i \in 1..Len(lastEvict.evicted) :
              \A t \in lastEvict.evicted[i].present :
                  lastEvict.evicted[i].timestamp <= t
        /\ \/ /\ size + lastEvict.newSize <= MAX_CACHE_SIZE
              /\ Len(cache) < MAX_CACHE_ITEMS
           \/ Len(cache) = 0

\* a set that evicted two entries of different age, oldest first
EvictedTwoOfDifferentAge ==
    /\ lastEvict # None
    /\ Len(lastEvict.evicted) >= 2
    /\ Cardinality(lastEvict.evicted[1].present) >= 2
    /\ lastEvict.evicted[1].timestamp < lastEvict.evicted[2].timestamp

\* -------------------------------------------------------------------
\* C3: under any interleaving of set and get calls the number of cached
\* entries never exceeds MAX_CACHE_ITEMS.
CacheWithinItemCeiling ==
    Len(cache) <= MAX_CACHE_ITEMS

\* -------------------------------------------------------------------
\* C4: of the add calls made with one key while an earlier call with that
\* key is still in flight, only one has its producer invoked.
ProducerInvokedOncePerKey ==
    \A i \in CallerIds : \A j \in callers[i].peers :
        ~(callers[i].producer # None /\ callers[j].producer # None)

\* -------------------------------------------------------------------
\* C5: two add calls with the same key that were in flight together settle
\* with the same result (the same value, or the same failure).
SameKeySameSettlement ==
    \A i \in CallerIds : \A j \in callers[i].peers :
        (callers[i].outcome # None /\ callers[j].outcome # None) =>
            callers[i].outcome = callers[j].outcome

\* -------------------------------------------------------------------
\* C6: a caller's promise settles only with an outcome of its own item (its
\* own producer or its own processSingleItem); the failure of another item
\* of the batch never rejects it.
SettlesWithOwnOutcome ==
    \A i \in CallerIds :
        callers[i].outcome # None =>
            callers[i].outcome \in {callers[i].producer, callers[i].flush}

\* an item of a batch was rejected by its failed processSingleItem while a
\* sibling of the same batch was resolved by its own
SiblingResolvedBesideFailure ==
    \E i, j \in SeqToSet(currentBatch) :
        /\ i # j
        /\ callers[i].flush = Failure
        /\ callers[i].producer = Running
        /\ callers[i].outcome = Failure
        /\ callers[j].flush = Success
        /\ callers[j].producer = Running
        /\ callers[j].outcome = Success

\* -------------------------------------------------------------------
\* RequestQueue claims
\* -------------------------------------------------------------------
Dequeued == {t \in TaskIds : tasks[t].pc \in {"sleeping", "inflight"}}

\* C7: in every reachable state the running counter is between 0 and
\* MAX_CONCURRENT_REQUESTS, and it is the number of operations that were
\* dequeued and have not finished.
RunningWithinCeiling ==
    /\ running >= 0
    /\ running <= MAX_CONCURRENT_REQUESTS
    /\ running = Cardinality(Dequeued)

\* the ceiling is reached while an operation waits in the queue
QueueWaitsAtCeiling ==
    /\ running = MAX_CONCURRENT_REQUESTS
    /\ Len(queue) > 0
    /\ \E t \in TaskIds : tasks[t].pc = "settled"

\* C8: an operation never starts after an operation submitted later than it
\* has started.
StartsInSubmissionOrder ==
    \A t \in TaskIds : tasks[t].pc = "inflight" => ~tasks[t].late

\* C9: a dispatch is refused only when the endpoint's count has reached
\* failureThreshold, which takes failureThreshold consecutive failed calls of
\* that endpoint; a success puts the count back to zero; and when the
\* failureThreshold-th consecutive call has failed the circuit is open.
CircuitOpensAtThreshold ==
    /\ lastRefusal # None =>
          /\ lastRefusal.failures >= failureThreshold
          /\ lastRefusal.streak >= failureThreshold
    /\ \A e \in Endpoints :
          /\ streak[e] = 0 => failures[e] = 0
          /\ failures[e] < failureThreshold => failures[e] <= streak[e]
          /\ (streak[e] = failureThreshold /\ now - lastFailureTime[e] < resetTimeout)
                => IsCircuitOpen(e).open

\* a dispatch was refused right after the failureThreshold-th consecutive
\* failure, while the other endpoint's count was below the threshold
RefusedAtThreshold ==
    /\ lastRefusal # None
    /\ lastRefusal.streak = failureThreshold
    /\ lastRefusal.failures = failureThreshold
    /\ \E e \in Endpoints : e # lastRefusal.endpoint /\ streak[e] > 0

\* C10: no operation is invoked for an endpoint less than resetTimeout after
\* the failure that opened, or kept open, the endpoint's circuit.
NoDispatchWhileOpen ==
    \A t \in TaskIds : tasks[t].pc = "inflight" => ~tasks[t].whileOpen

InFlightTrials(e) ==
    {t \in TaskIds : /\ tasks[t].pc = "inflight"
                     /\ tasks[t].endpoint = e
                     /\ tasks[t].trial}

\* C11: of the operations dispatched for an endpoint whose circuit is
\* half-open, at most one is in flight at a time.
OneTrialAtATime ==
    \A e \in Endpoints : Cardinality(InFlightTrials(e)) <= 1

\* C12: when an operation dispatched on a half-open circuit settles, a
\* success leaves the endpoint's count at zero and a failure leaves the
\* circuit open with the last failure stamped at the time of that failure.
TrialDecidesCircuit ==
    [][\A t \in TaskIds :
          (tasks[t].pc = "inflight" /\ tasks[t].trial /\ tasks'[t].pc = "settled")
          => LET e == tasks[t].endpoint
             IN  IF streak'[e] = 0
                 THEN failures'[e] = 0
                 ELSE /\ failures'[e] >= failureThreshold
                      /\ lastFailureTime'[e] = now'
                      /\ now' - lastFailureTime'[e] < resetTimeout]_vars

\* -------------------------------------------------------------------
\* fetchWithRetry claims
\* -------------------------------------------------------------------
Attempts == Len(answers) + (IF rpc = "fetching" THEN 1 ELSE 0)
Only429 == \A k \in 1..Len(answers) :
              answers[k].kind = "response" /\ answers[k].status = 429
RetryDone == rpc \in {"returned", "thrown"}

\* C13: at most MAX_RETRIES + 1 attempts are made; the backoffs slept are
\* 1000, 2000, 4000 ms in this order; and when every answer is a 429 the call
\* ends after the fourth attempt by throwing the failure.
RetryCeilingAndBackoff ==
    /\ Attempts <= MAX_RETRIES + 1
    /\ retryCount <= MAX_RETRIES
    /\ Len(sleeps) <= 3
    /\ sleeps = SubSeq(<<1000, 2000, 4000>>, 1, Len(sleeps))
    /\ (Only429 /\ rpc # "idle" /\ answers # <<>>) =>
          /\ Len(sleeps) = (IF Len(answers) <= MAX_RETRIES THEN Len(answers)
                            ELSE MAX_RETRIES)
          /\ RetryDone <=> Len(answers) = MAX_RETRIES + 1
          /\ RetryDone => rpc = "thrown" /\ rresult.has429

\* four attempts were answered 429 and the failure was thrown
ThrownAfterFour429 ==
    /\ rpc = "thrown"
    /\ Only429
    /\ Len(answers) = 4
    /\ sleeps = <<1000, 2000, 4000>>

\* C14: after an attempt was aborted by the API_TIMEOUT timer below the
\* retry ceiling, the call is in the backoff of that attempt.
TimeoutIsRetried ==
    (/\ answers # <<>>
     /\ answers[Len(answers)].kind = "abort"
     /\ rpc # "fetching"
     /\ Len(answers) <= MAX_RETRIES)
    => /\ rpc = "sleeping"
       /\ Len(sleeps) = Len(answers)

\* C15: no retry attempt is sent upstream while the circuit of its endpoint
\* is open.
NoRetryWhileCircuitOpen ==
    (upstream # None /\ upstream.retryCount > 0) => ~upstream.open

\* -------------------------------------------------------------------
\* resolveFid claims
\* -------------------------------------------------------------------
\* C16: when the primary lookup has failed, resolveFid fails only after the
\* fallback lookup was made too; and a second lookup is the fallback one.
FallbackWhenPrimaryFails ==
    /\ (fpc = "thrown" /\ flookups # <<>> /\ rpc = "thrown")
          => flookups = <<ProofUrl, ProfileUrl>>
    /\ Len(flookups) = 2 => flookups[2] = ProfileUrl

AcceptedCount == IF popts.mode = "batch" THEN Len(casts) ELSE castCount

LimitReached == popts.limit # 0 /\ AcceptedCount >= popts.limit

\* C18: not in all mode, in fetchCasts and in the streaming loop, no page is
\* requested after a page that came without a next-page token nor after the
\* count of accepted posts has reached the requested limit, and once the
\* upstream has returned a page without a token the loop has ended.
StopsPaging ==
    ~popts.all =>
        /\ (ppc = "fetching" /\ requests > 1) => (~exhausted /\ ~LimitReached)
        /\ exhausted => ppc \in {"done", "aborted"}

\* the loop ended after its second page because the limit was reached, while
\* the upstream still offered a next page
StoppedAtLimitWithTokenLeft ==
    /\ ~popts.all
    /\ ppc = "done"
    /\ requests = 2
    /\ ~exhausted
    /\ LimitReached

\* C19: fetchCasts called with all = true returns only after a page without a
\* next-page token, whatever limit its options carry, and returns every
\* accepted post of the upstream.
AllModeIgnoresLimit ==
    (popts.mode = "batch" /\ popts.all /\ ppc = "done") =>
        /\ exhausted
        /\ casts = AcceptedOf(feed, 1, Len(feed), popts.includeReplies)

\* C20: fetchCasts with includeReplies = false and limit L returns no reply
\* and, when the upstream holds at least L top-level posts, exactly the first
\* L of them in upstream order.
ExactlyFirstTopLevelPosts ==
    (/\ popts.mode = "batch" /\ ~popts.all /\ ~popts.includeReplies
     /\ popts.limit # 0 /\ ppc = "done") =>
        LET tops == AcceptedOf(feed, 1, Len(feed), FALSE) IN
        /\ \A i \in 1..Len(casts) : feed[casts[i]] = "top"
        /\ Len(tops) >= popts.limit => casts = SubSeq(tops, 1, popts.limit)

\* the accepted posts of the whole upstream sequence, in upstream order
AllAccepted == AcceptedOf(feed, 1, Len(feed), popts.includeReplies)

IsPrefix(s, t) == Len(s) <= Len(t) /\ s = SubSeq(t, 1, Len(s))

\* C21: in stream mode with limit L and all not set, at most L post blocks
\* are emitted, the emitted posts are the first accepted posts of the
\* upstream sequence in order (exactly the first L when the loop ends with
\* at least L accepted posts upstream), and no page is requested once L
\* accepted posts have been counted.
StreamEmitsFirstL ==
    (popts.mode = "stream" /\ ~popts.all /\ popts.limit # 0) =>
        /\ Len(emitted) <= popts.limit
        /\ IsPrefix(emitted, AllAccepted)
        /\ (ppc = "done" /\ Len(AllAccepted) >= popts.limit)
               => emitted = SubSeq(AllAccepted, 1, popts.limit)
        /\ (ppc = "fetching" /\ requests > 1) => castCount < popts.limit

\* a stream with limit 2 has ended with two post blocks while the upstream
\* holds a third accepted post
StreamCutAtLimit ==
    /\ popts.mode = "stream" /\ ~popts.all /\ popts.limit = 2
    /\ ppc = "done"
    /\ Len(emitted) = 2
    /\ Len(AllAccepted) > 2

\* the events of the stream so far
Events == {slog[i] : i \in 1..Len(slog)}

\* C22: with all = true no reaction lookup is issued, whatever
\* includeReactions asked for, and every post block carries a zero
\* reaction tally.
AllModeNoEnrichment ==
    typedQuery.all =>
        \A e \in Events :
            /\ ~(e.ev = "call" /\ e.what = "reactions")
            /\ (e.ev = "write" /\ e.what = "Reactions")
                   => e.tally = ZeroReactions

\* C26: once the cancellation signal has been raised, no output fragment is
\* written to the stream.
NoOutputAfterAbort ==
    \A e \in Events : e.ev = "write" => ~e.late

ReactionsNeverFail ==
    /\ crpc # "thrown"
    /\ (crpc = "returned" /\ crpromise # None) =>
           /\ crfailed => crvalue = ZeroReactions
           /\ ~crpromise.ok => crvalue = ZeroReactions

\* the recast lookup of fetchFn failed after its like lookup was answered
\* with one like, and the call has returned
ReturnedAfterFailedLookup ==
    /\ crpc = "returned"
    /\ crlookups["fnLike"] = [st |-> "ok", n |-> 1]
    /\ crlookups["fnRecast"] = Failed
    /\ crpromise # None
    /\ ~crpromise.ok

\* C24: fetchParentCasts looks every distinct parent hash up at most once;
\* when fetchCasts is done, a cast has a parent exactly when its parentHash
\* was answered with a cast, whatever happened to the other lookups of the
\* same or of another batch.
ParentsAttachedOrAbsent ==
    /\ \A h \in ParentHashes : pasent[h] <= 1
    /\ papc = "done" =>
           \A i \in 1..Len(parefs) :
               paattached[i] = IF parefs[i] # 0 /\ palookups[parefs[i]] = "cast"
                               THEN parefs[i] ELSE 0

\* two replies share a parent whose lookup threw, a third reply has its
\* parent attached, and the two lookups were in the same batch
SiblingParentResolved ==
    /\ papc = "done"
    /\ parefs = <<1, 1, 2>>
    /\ palookups[1] = "throws"
    /\ paattached = <<0, 0, 2>>

StrictlyIncreasing(s) == \A i, j \in 1..Len(s) : i < j => s[i] < s[j]

\* C25: the posts fetchCasts returns and the posts the stream emits are in
\* upstream order (pages in request order, messages in page order), in
\* whatever order the concurrent lookups of a page complete.
PostOrderPreserved ==
    /\ StrictlyIncreasing(casts)
    /\ StrictlyIncreasing(emitted)

\* fetchCasts has returned two posts of a page whose callbacks did not
\* complete in page order
ReturnedAfterReordering ==
    /\ popts.mode = "batch"
    /\ ppc = "done"
    /\ reordered
    /\ requests = 1
    /\ Len(casts) >= 2

\* C29: the profile fetchUserData returns has a positive fid, equal to the
\* fid that was passed in or resolved from the handle.
ProfileCarriesIdentity ==
    udpc = "returned" =>
        /\ uduser.fid > 0
        /\ uduser.fid = udarg.fid

\* C30: text API, all not true: the number of posts returned never exceeds
\* the effective limit (the requested limit capped at the maximum when a
\* limit is given, the default when none is given).
EffectiveLimit ==
    IF topts.limit # 0 THEN Min(topts.limit, LIMIT_CAP) ELSE DEFAULT_LIMIT

ReturnsAtMostEffectiveLimit ==
    (tpc = "returned" /\ ~topts.all) => Len(tcasts) <= EffectiveLimit

\* C31: text API with all=true: the result never holds more than the
\* maximum number of posts (1000 in the source), however many pages the
\* upstream offers.
AllModeAtMostCap ==
    (tpc = "returned" /\ topts.all) => Len(tcasts) <= LIMIT_CAP

\* C32: the inter-dispatch delay stays within [50, 500] ms and the window
\* of response times holds at most 10 samples; when a sample is recorded,
\* a variance above 1000 never decreases the delay and a variance below
\* 100 never increases it.
AdaptiveDelayKept ==
    [][/\ adDelay >= 50 * 1000 /\ adDelay <= 500 * 1000
       /\ adDelay' >= 50 * 1000 /\ adDelay' <= 500 * 1000
       /\ Len(adWindow) <= 10 /\ Len(adWindow') <= 10
       /\ (VarianceAbove(adWindow', 1000) => adDelay' >= adDelay)
       /\ (VarianceBelow(adWindow', 100) => adDelay' <= adDelay)]_delayVars

\* the window has dropped a sample and the delay has reached the ceiling
WindowShiftedAtCeiling ==
    /\ adSampled > 10
    /\ Len(adWindow) = 10
    /\ adDelay = 500 * 1000

\* C33: two operations never start less than the current delay apart. An
\* operation sleeps for the delay from the moment it is dequeued, so the
\* spacing holds only if no operation is already sleeping when another one
\* starts: one that is will start less than its delay later.
StartsSpacedByDelay ==
    [][\A t \in TaskIds :
          (tasks[t].pc = "sleeping" /\ tasks'[t].pc = "inflight")
          => \A u \in TaskIds \ {t} : tasks[u].pc # "sleeping"]_vars

\* the largest page a site asks for
PageCap(site) == IF site = "text" THEN LIMIT_CAP ELSE 100

\* the target the pagination set up for `asked` works towards (0: none)
AskedTarget ==
    IF asked.site = "text"
    THEN (IF asked.limit # 0 THEN asked.limit ELSE DEFAULT_LIMIT)
    ELSE asked.limit

\* replies are filtered, not all mode, and the limit, if any, is valid
FilteringReplies ==
    /\ asked.site # "none"
    /\ ~asked.includeReplies
    /\ ~asked.all
    /\ AskedTarget # 0
    /\ asked.site = "text" => asked.limit <= LIMIT_CAP

\* C34 as stated: whenever replies are filtered out, the page size is
\* strictly larger than the target limit, for every valid limit.
PageSizeAboveTarget ==
    FilteringReplies => asked.pageSize > AskedTarget

\* C34: whenever replies are filtered out, the page size never exceeds the
\* largest page of the site; it is strictly larger than the target limit
\* when the target is below the largest page, and is the largest page
\* otherwise.
PageSizeAboveTargetUpToCap ==
    FilteringReplies =>
        /\ asked.pageSize <= PageCap(asked.site)
        /\ AskedTarget < PageCap(asked.site) => asked.pageSize > AskedTarget
        /\ AskedTarget >= PageCap(asked.site)
              => asked.pageSize = PageCap(asked.site)

\* a limit at the largest page, replies filtered
AskedAtCap ==
    /\ FilteringReplies
    /\ asked.site = "batch"
    /\ asked.limit = 100
    /\ asked.pageSize = 100

ProfileFields ==
    {"username", "displayName", "bio", "pfp", "url", "location", "twitter",
     "github"}

\* the positions of the records of the merged response that are stored in
\* field f
RecordsOf(f) ==
    {i \in 1..Len(merged.messages) :
        merged.messages[i].body /\ FieldOf(merged.messages[i].type) = f}

\* the value of the last record of field f, or `none`
LastRecordOr(f, none) ==
    IF RecordsOf(f) = {} THEN none
    ELSE merged.messages[CHOOSE i \in RecordsOf(f) :
                             \A j \in RecordsOf(f) : j <= i].value

\* C35 as stated: every field has the value of the last record that maps
\* to it, and a field with no record is empty.
LastRecordWinsElseEmpty ==
    merged.site # "none" =>
        \A f \in ProfileFields : merged.user[f] = LastRecordOr(f, "")

\* C35: every field has the value of the last record that maps to it, and a
\* field with no record is empty; except that in the two inline merges the
\* username starts as the handle of the query and, when the merge leaves it
\* empty, becomes the handle or user_<fid>.
LastRecordWinsWithUsernameFallback ==
    merged.site # "none" =>
        \A f \in ProfileFields :
            IF f = "username" /\ merged.site # "batch"
            THEN merged.user[f] =
                    (IF LastRecordOr(f, merged.handle) # ""
                     THEN LastRecordOr(f, merged.handle)
                     ELSE Fallback(merged.handle, merged.fid))
            ELSE merged.user[f] = LastRecordOr(f, "")

\* two records of one field, in both spellings of its type, with different
\* values, merged by processUserData
TwoRecordsOfOneField ==
    /\ merged.site = "batch"
    /\ Len(merged.messages) = 2
    /\ merged.messages[1] = [body |-> TRUE, type |-> "6", value |-> ""]
    /\ merged.messages[2] = [body |-> TRUE, type |-> "USER_DATA_TYPE_USERNAME",
                             value |-> "x"]
    /\ merged.user.username = "x"

\* the sum of the serialized sizes of the entries of c
RECURSIVE SizeOfEntries(_)
SizeOfEntries(c) ==
    IF c = <<>> THEN 0
    ELSE SerializedLength(Head(c).data) + SizeOfEntries(Tail(c))

\* C37: whenever no set() call is suspended, the running size counter is
\* the sum of the serialized sizes of the entries in the cache.
SizeCounterIsSumOfEntries ==
    (\A f \in SetCallers : pendingSets[f] = None)
        => size = SizeOfEntries(cache)

\* C38: a dispatch that is rejected because the circuit is open leaves the
\* endpoint's failure count and last-failure timestamp unchanged.
RefusalLeavesBreakerUnchanged ==
    [][\A t \in TaskIds :
          (tasks[t].pc = "sleeping" /\ tasks'[t].pc = "settled")
          => /\ failures'[tasks[t].endpoint] = failures[tasks[t].endpoint]
             /\ lastFailureTime'[tasks[t].endpoint]
                   = lastFailureTime[tasks[t].endpoint]]_vars

\* C39: every operation submitted to add settles in the end, provided
\* every operation that is invoked terminates (from some point on every
\* operation submitted has settled); and no operation is waiting in the
\* queue while fewer than MAX_CONCURRENT_REQUESTS are running.
EverySubmittedOperationSettles ==
    /\ [](Len(queue) > 0 => running = MAX_CONCURRENT_REQUESTS)
    /\ <>[](\A t \in TaskIds : tasks[t].pc \in {"new", "settled"})

\* two operations wait behind MAX_CONCURRENT_REQUESTS running ones
TwoWaitBehindCeiling ==
    /\ Len(queue) >= 2
    /\ running = MAX_CONCURRENT_REQUESTS
    /\ \E t \in TaskIds : tasks[t].pc = "inflight"

\* -------------------------------------------------------------------
\* C40: the promise returned by add settles with the outcome of the producer
\* passed to that call, never with what processSingleItem of a flush
\* produced: a settled promise carries the settlement of its own producer.
SettlesWithProducerOutcome ==
    \A i \in CallerIds :
        callers[i].outcome # None =>
            callers[i].outcome = callers[i].producer

====
